---------------------------- MODULE Spec2Model ----------------------------
(***************************************************************************)
(* Verification model of three parts of the repository:                    *)
(*                                                                         *)
(*   - crates/edr_napi/src/provider.rs: Provider::handle_request, the      *)
(*     asynchronous dispatcher (specification Spec);                       *)
(*   - crates/edr_eth/src/transaction/signed/eip2930.rs: the access-list   *)
(*     envelope, its RLP encoding, its memoized hash and its equality      *)
(*     (specifications SpecRlp and SpecHash);                                             *)
(*   - the MethodInvocation (de)serialization exercised by                 *)
(*     crates/edr_provider/tests/eth_request_serialization.rs              *)
(*     (specification SpecSerde).                                          *)
(*                                                                         *)
(* Option<T> is modelled as a sequence of length 0 (None) or 1 (Some).     *)
(***************************************************************************)
EXTENDS Integers, Sequences, FiniteSets, TLC

None == << >>
Some(x) == << x >>

(***************************************************************************)
(* State.  Each specification below moves one group of variables and       *)
(* leaves the other groups parked.                                         *)
(***************************************************************************)

\* Provider::handle_request
VARIABLES
    pc,          \* per request: position inside handle_request
    text,        \* per request: json_request
    task,        \* per request: the spawn_blocking task it awaits
    logResult,   \* per request: what the logging task produced
    answer,      \* per request: what the engine's handle_request returned
    response,    \* per request: the local `response` (std::mem::take empties it)
    solidity_trace, \* per request: the local `solidity_trace`
    traces,      \* per request: the local `traces`
    ret,         \* per request: what handle_request returned to the host
    logCalls,    \* per request: calls of log_failed_deserialization
    engineCalls  \* per request: calls of the engine's handle_request

providerVars == << pc, text, task, logResult, answer, response, solidity_trace,
                   traces, ret, logCalls, engineCalls >>

\* Encoding round trip
VARIABLES
    rlpPc,       \* "start", "encoded", "decoded"
    rlpTx,       \* the envelope x
    rlpBytes,    \* alloy_rlp::encode(&x)
    rlpDecoded   \* Eip2930SignedTransaction::decode(&mut bytes)

rlpVars == << rlpPc, rlpTx, rlpBytes, rlpDecoded >>

\* Memoized hash and equality
VARIABLES
    self,        \* the shared envelope; self.hash is the OnceLock's slot
    once,        \* the OnceLock's Once: "incomplete", "running", "complete"
    tpc,         \* per thread: position inside hash()
    returned,    \* every value a hash() call has returned so far
    writes,      \* number of writes to the OnceLock's slot
    other        \* a second envelope, owned by one thread

hashVars == << self, once, tpc, returned, writes, other >>

\* MethodInvocation serialization round trip
VARIABLES
    serdePc,           \* "start", "serialized", "deserialized"
    call,              \* the MethodInvocation under test
    serialized,        \* serde_json::json!(call), possibly with the alias put in
    call_deserialized  \* serde_json::from_str(&serialized)

serdeVars == << serdePc, call, serialized, call_deserialized >>

\* Signing and recovery
VARIABLES
    signPc,      \* "start", "signed" or "received"
    request,     \* the unsigned Eip2930TransactionRequest
    secret_key,  \* the signer's secret key
    signed,      \* the Eip2930SignedTransaction
    recovered    \* what the recover() calls on it returned, in order

signVars == << signPc, request, secret_key, signed, recovered >>

vars == << providerVars, rlpVars, hashVars, serdeVars, signVars >>

(***************************************************************************)
(* Part I.  Provider::handle_request                                       *)
(***************************************************************************)

\* The requests in flight on one Provider (handle_request takes &self and is
\* async: several invocations may be pending at once).
Requests == {"r1", "r2"}

\* Longest trace sequence the engine hands back in the model.
MaxTraces == 2

\* edr_evm::trace::Trace values; DefaultTrace is Trace::default(), what
\* std::mem::take leaves behind.
Traces == {"tA", "tB"}
DefaultTrace == "tDefault"

RECURSIVE SeqsUpTo(_, _)
SeqsUpTo(S, n) ==
    IF n = 0 THEN { << >> }
    ELSE LET shorter == SeqsUpTo(S, n - 1)
         IN  shorter \cup { Append(q, x) : q \in { p \in shorter : Len(p) = n - 1 }, x \in S }

TraceSeqs == SeqsUpTo(Traces, MaxTraces)

\* Request texts, by what serde_json and the classifier can tell about them.
\*   json   : the text is syntactically valid JSON
\*   shape  : how far it gets towards a MethodInvocation
Texts ==
    { [json |-> FALSE, shape |-> "garbage"],
      [json |-> TRUE,  shape |-> "not_a_request"],
      [json |-> TRUE,  shape |-> "unknown_method"],
      [json |-> TRUE,  shape |-> "bad_params"],
      [json |-> TRUE,  shape |-> "invocation"] }

\* serde_json::from_str::<MethodInvocation>(&json_request) succeeds
ParsesAsInvocation(t) == t.shape = "invocation"

\* JSON-RPC reserved error codes used by the classifier.
ParseErrorCode == -32700
InvalidRequestCode == -32600
MethodNotFoundCode == -32601
InvalidParamsCode == -32602

\* InvalidRequestReason::new(&json_request, &message): the classification.
InvalidRequestReason(t) ==
    CASE ~t.json                     -> "ParseError"
      [] t.shape = "unknown_method"  -> "MethodNotFound"
      [] t.shape = "bad_params"      -> "InvalidParams"
      [] OTHER                       -> "InvalidRequest"

\* InvalidRequestReason::error_code
error_code(reason) ==
    CASE reason = "ParseError"     -> ParseErrorCode
      [] reason = "MethodNotFound" -> MethodNotFoundCode
      [] reason = "InvalidParams"  -> InvalidParamsCode
      [] OTHER                     -> InvalidRequestCode

\* InvalidRequestReason::provider_error: Some((method_name, provider_error))
\* only for a recognized method with invalid parameters.
provider_error(reason) ==
    IF reason = "InvalidParams"
    THEN Some([method_name |-> "method", error |-> "InvalidInput"])
    ELSE None

\* TransactionFailureReason
FailureReasons == {"OutOfGas", "Revert", "Inner"}

\* ProviderError kinds other than TransactionFailed
OtherErrorKinds == {"InvalidInput", "Other"}

\* What the engine's handle_request can return:
\* Result<ResponseWithTraces, ProviderError>.
EngineOk(ts) ==
    [ok |-> TRUE, kind |-> "Ok", reason |-> "none",
     solidity_trace |-> DefaultTrace, traces |-> ts]
EngineFailed(rs, st, ts) ==
    [ok |-> FALSE, kind |-> "TransactionFailed", reason |-> rs,
     solidity_trace |-> st, traces |-> ts]
EngineOther(k) ==
    [ok |-> FALSE, kind |-> k, reason |-> "none",
     solidity_trace |-> DefaultTrace, traces |-> << >>]

EngineResults ==
    { EngineOk(ts) : ts \in TraceSeqs }
    \cup { EngineFailed(rs, st, ts) : rs \in FailureReasons, st \in Traces, ts \in TraceSeqs }
    \cup { EngineOther(k) : k \in OtherErrorKinds }

NoResult == [ok |-> FALSE, kind |-> "none", reason |-> "none",
             solidity_trace |-> DefaultTrace, traces |-> << >>]


NoText == [json |-> FALSE, shape |-> "none"]
\* No JSON text.
NoBody == [body |-> "none", code |-> 0, message |-> "none", data |-> None]

NotReturned == [tag |-> "pending", status |-> "none", json |-> NoBody,
                solidity_trace |-> None, traces |-> << >>]

\* Ok(Response { solidity_trace, json, traces })
OkResponse(json, st, ts) ==
    [tag |-> "Ok", status |-> "none", json |-> json,
     solidity_trace |-> st, traces |-> ts]

\* Err(napi::Error::new(status, ..))
HostError(status) ==
    [tag |-> "Err", status |-> status, json |-> NoBody,
     solidity_trace |-> None, traces |-> << >>]

\* The error body with the request text echoed in `data` whether or not it
\* is JSON.
ParseErrorBodyEchoing(t) ==
    [body |-> "error",
     code |-> error_code(InvalidRequestReason(t)),
     message |-> InvalidRequestReason(t),
     data |-> Some(t)]

\* jsonrpc::ResponseData::<()>::Error { error: jsonrpc::Error { code, message, data } }
\* serialized: the error body of a failed parse.
ParseErrorBody(t) ==
    [body |-> "error",
     code |-> error_code(InvalidRequestReason(t)),
     message |-> InvalidRequestReason(t),
     data |-> IF t.json THEN Some(t) ELSE None]

\* jsonrpc::Error::from(ProviderError): the domain-specific error codes.
TransactionFailedCode == -32003
InvalidInputCode == -32000
InternalErrorCode == -32603

ProviderErrorCode(kind) ==
    CASE kind = "TransactionFailed" -> TransactionFailedCode
      [] kind = "InvalidInput"      -> InvalidInputCode
      [] OTHER                      -> InternalErrorCode

\* jsonrpc::ResponseData::from(response.map(|response| response.result)),
\* serialized: `result` on success, `error` for every ProviderError.
ResponseData(res) ==
    IF res.ok
    THEN [body |-> "result", code |-> 0, message |-> "none", data |-> None]
    ELSE [body |-> "error", code |-> ProviderErrorCode(res.kind),
          message |-> res.kind, data |-> None]

ProviderInit ==
    /\ pc = [r \in Requests |-> "idle"]
    /\ text = [r \in Requests |-> NoText]
    /\ task = [r \in Requests |-> "none"]
    /\ logResult = [r \in Requests |-> "none"]
    /\ answer = [r \in Requests |-> NoResult]
    /\ response = [r \in Requests |-> NoResult]
    /\ solidity_trace = [r \in Requests |-> None]
    /\ traces = [r \in Requests |-> << >>]
    /\ ret = [r \in Requests |-> NotReturned]
    /\ logCalls = [r \in Requests |-> 0]
    /\ engineCalls = [r \in Requests |-> 0]

\* handle_request without the await of lines 80-83: the logging task is
\* spawned and the error response returned at once.
handle_request_detached(r, t) ==
    /\ pc[r] = "idle"
    /\ text' = [text EXCEPT ![r] = t]
    /\ IF ParsesAsInvocation(t)
       THEN /\ task' = [task EXCEPT ![r] = "engine_queued"]
            /\ pc' = [pc EXCEPT ![r] = "await_engine"]
            /\ ret' = ret
       ELSE /\ task' = [task EXCEPT ![r] =
                          IF provider_error(InvalidRequestReason(t)) # None
                          THEN "log_queued" ELSE @]
            /\ pc' = [pc EXCEPT ![r] = "done"]
            /\ ret' = [ret EXCEPT ![r] = OkResponse(ParseErrorBody(t), None, << >>)]
    /\ UNCHANGED << logResult, answer, response, solidity_trace, traces,
                    logCalls, engineCalls >>
    /\ UNCHANGED << rlpVars, hashVars, serdeVars, signVars >>

\* handle_request without the early return of lines 87-107: the engine
\* task is queued whether or not the text parsed.
handle_request_dispatching(r, t) ==
    /\ pc[r] = "idle"
    /\ text' = [text EXCEPT ![r] = t]
    /\ task' = [task EXCEPT ![r] = "engine_queued"]
    /\ pc' = [pc EXCEPT ![r] = "await_engine"]
    /\ UNCHANGED << logResult, answer, response, solidity_trace, traces, ret,
                    logCalls, engineCalls >>
    /\ UNCHANGED << rlpVars, hashVars, serdeVars, signVars >>

\* handle_request, lines 63-108, up to its first await: parse the text; on
\* failure classify it and either spawn the logging task or return the
\* classified error response; on success spawn the engine call.
handle_request(r, t) ==
    /\ pc[r] = "idle"
    /\ text' = [text EXCEPT ![r] = t]
    /\ IF ParsesAsInvocation(t)
       THEN /\ task' = [task EXCEPT ![r] = "engine_queued"]
            /\ pc' = [pc EXCEPT ![r] = "await_engine"]
            /\ ret' = ret
       ELSE IF provider_error(InvalidRequestReason(t)) # None
       THEN /\ task' = [task EXCEPT ![r] = "log_queued"]
            /\ pc' = [pc EXCEPT ![r] = "await_log"]
            /\ ret' = ret
       ELSE /\ task' = task
            /\ pc' = [pc EXCEPT ![r] = "done"]
            /\ ret' = [ret EXCEPT ![r] = OkResponse(ParseErrorBody(t), None, << >>)]
    /\ UNCHANGED << logResult, answer, response, solidity_trace, traces,
                    logCalls, engineCalls >>
    /\ UNCHANGED << rlpVars, hashVars, serdeVars, signVars >>

\* What the closure of lines 77-79 can do on the worker pool:
\* log_failed_deserialization returns Ok, returns Err, or panics.
LogOutcomes == {"Ok", "Err", "Panic"}

\* The worker pool runs the logging task (lines 77-79).
log_failed_deserialization(r, outcome) ==
    /\ task[r] = "log_queued"
    /\ task' = [task EXCEPT ![r] = IF outcome = "Panic" THEN "log_panicked" ELSE "log_finished"]
    /\ logResult' = [logResult EXCEPT ![r] = outcome]
    /\ logCalls' = [logCalls EXCEPT ![r] = @ + 1]
    /\ UNCHANGED << pc, text, answer, response, solidity_trace, traces, ret,
                    engineCalls >>
    /\ UNCHANGED << rlpVars, hashVars, serdeVars, signVars >>

\* The await of lines 80-83 resumed only by a logging task that returned: a
\* panicked task is never joined.
await_log_unjoined(r) ==
    /\ pc[r] = "await_log"
    /\ task[r] = "log_finished"
    /\ ret' = [ret EXCEPT ![r] = OkResponse(ParseErrorBody(text[r]), None, << >>)]
    /\ pc' = [pc EXCEPT ![r] = "done"]
    /\ task' = [task EXCEPT ![r] = "joined"]
    /\ UNCHANGED << text, logResult, answer, response, solidity_trace, traces,
                    logCalls, engineCalls >>
    /\ UNCHANGED << rlpVars, hashVars, serdeVars, signVars >>

\* The JoinHandle of the logging task resolves: lines 80-106.
\*   Err(JoinError) from .await is mapped to napi::Error and returned by `?`;
\*   Ok(_result) is dropped and the classified error response is returned.
await_log(r) ==
    /\ pc[r] = "await_log"
    /\ task[r] \in {"log_finished", "log_panicked"}
    /\ ret' = [ret EXCEPT ![r] =
                 IF task[r] = "log_panicked"
                 THEN HostError("GenericFailure")
                 ELSE OkResponse(ParseErrorBody(text[r]), None, << >>)]
    /\ pc' = [pc EXCEPT ![r] = "done"]
    /\ task' = [task EXCEPT ![r] = "joined"]
    /\ UNCHANGED << text, logResult, answer, response, solidity_trace, traces,
                    logCalls, engineCalls >>
    /\ UNCHANGED << rlpVars, hashVars, serdeVars, signVars >>

\* The worker pool runs the engine call of line 111 and it returns `res`.
engine_handle_request(r, res) ==
    /\ task[r] = "engine_queued"
    /\ task' = [task EXCEPT ![r] = "engine_finished"]
    /\ answer' = [answer EXCEPT ![r] = res]
    /\ engineCalls' = [engineCalls EXCEPT ![r] = @ + 1]
    /\ UNCHANGED << pc, text, logResult, response, solidity_trace, traces, ret,
                    logCalls >>
    /\ UNCHANGED << rlpVars, hashVars, serdeVars, signVars >>

\* The worker pool runs the engine call of line 111 and it panics.
engine_panic(r) ==
    /\ task[r] = "engine_queued"
    /\ task' = [task EXCEPT ![r] = "engine_panicked"]
    /\ engineCalls' = [engineCalls EXCEPT ![r] = @ + 1]
    /\ UNCHANGED << pc, text, logResult, answer, response, solidity_trace,
                    traces, ret, logCalls >>
    /\ UNCHANGED << rlpVars, hashVars, serdeVars, signVars >>

\* The worker pool runs the engine call of line 111 and it never returns:
\* no timeout is imposed, the task stays on its worker for good.
engine_hang(r) ==
    /\ task[r] = "engine_queued"
    /\ task' = [task EXCEPT ![r] = "engine_hung"]
    /\ engineCalls' = [engineCalls EXCEPT ![r] = @ + 1]
    /\ UNCHANGED << pc, text, logResult, answer, response, solidity_trace,
                    traces, ret, logCalls >>
    /\ UNCHANGED << rlpVars, hashVars, serdeVars, signVars >>

\* Lines 110-113 run on the accepting context instead of the worker pool:
\* nothing is resumed while an engine call of any request is outstanding.
await_engine_blocking(r) ==
    /\ pc[r] = "await_engine"
    /\ task[r] \in {"engine_finished", "engine_panicked"}
    /\ \A q \in Requests : task[q] \notin {"engine_queued", "engine_hung"}
    /\ IF task[r] = "engine_panicked"
       THEN /\ ret' = [ret EXCEPT ![r] = HostError("GenericFailure")]
            /\ pc' = [pc EXCEPT ![r] = "done"]
            /\ response' = response
       ELSE /\ ret' = ret
            /\ pc' = [pc EXCEPT ![r] = "take_solidity_trace"]
            /\ response' = [response EXCEPT ![r] = answer[r]]
    /\ task' = [task EXCEPT ![r] = "joined"]
    /\ UNCHANGED << text, logResult, answer, solidity_trace, traces, logCalls,
                    engineCalls >>
    /\ UNCHANGED << rlpVars, hashVars, serdeVars, signVars >>

\* Lines 110-113 with a retry: a panicked engine task is queued again.
await_engine_retrying(r) ==
    /\ pc[r] = "await_engine"
    /\ task[r] \in {"engine_finished", "engine_panicked"}
    /\ IF task[r] = "engine_panicked"
       THEN /\ task' = [task EXCEPT ![r] = "engine_queued"]
            /\ UNCHANGED << pc, response >>
       ELSE /\ task' = [task EXCEPT ![r] = "joined"]
            /\ pc' = [pc EXCEPT ![r] = "take_solidity_trace"]
            /\ response' = [response EXCEPT ![r] = answer[r]]
    /\ UNCHANGED << text, logResult, answer, solidity_trace, traces, ret,
                    logCalls, engineCalls >>
    /\ UNCHANGED << rlpVars, hashVars, serdeVars, signVars >>

\* The JoinHandle of the engine task resolves: lines 110-113.
await_engine(r) ==
    /\ pc[r] = "await_engine"
    /\ task[r] \in {"engine_finished", "engine_panicked"}
    /\ IF task[r] = "engine_panicked"
       THEN /\ ret' = [ret EXCEPT ![r] = HostError("GenericFailure")]
            /\ pc' = [pc EXCEPT ![r] = "done"]
            /\ response' = response
       ELSE /\ ret' = ret
            /\ pc' = [pc EXCEPT ![r] = "take_solidity_trace"]
            /\ response' = [response EXCEPT ![r] = answer[r]]
    /\ task' = [task EXCEPT ![r] = "joined"]
    /\ UNCHANGED << text, logResult, answer, solidity_trace, traces, logCalls,
                    engineCalls >>
    /\ UNCHANGED << rlpVars, hashVars, serdeVars, signVars >>

\* Lines 116-131 without the out-of-gas exception: every failed transaction
\* surfaces its trace.
TakeSolidityTraceAlways(res) ==
    IF ~res.ok /\ res.kind = "TransactionFailed"
    THEN Some(res.solidity_trace)
    ELSE None

\* Lines 116-131: the value of the local `solidity_trace`.
TakeSolidityTrace(res) ==
    IF ~res.ok /\ res.kind = "TransactionFailed"
    THEN IF res.reason = "OutOfGas" THEN None ELSE Some(res.solidity_trace)
    ELSE None

\* Lines 116-131: `response` after std::mem::take(&mut failure.failure.solidity_trace).
AfterTakeSolidityTrace(res) ==
    IF TakeSolidityTrace(res) # None
    THEN [res EXCEPT !.solidity_trace = DefaultTrace]
    ELSE res

take_solidity_trace(r) ==
    /\ pc[r] = "take_solidity_trace"
    /\ solidity_trace' = [solidity_trace EXCEPT ![r] = TakeSolidityTrace(response[r])]
    /\ response' = [response EXCEPT ![r] = AfterTakeSolidityTrace(response[r])]
    /\ pc' = [pc EXCEPT ![r] = "take_traces"]
    /\ UNCHANGED << text, task, logResult, answer, traces, ret, logCalls,
                    engineCalls >>
    /\ UNCHANGED << rlpVars, hashVars, serdeVars, signVars >>

\* Lines 134-140 with the out-of-gas exception of the top-level trace
\* applied to the trace sequence as well.
TakeTracesUnlessOutOfGas(res) ==
    IF res.ok THEN res.traces
    ELSE IF res.kind = "TransactionFailed" /\ res.reason # "OutOfGas" THEN res.traces
    ELSE << >>

\* Lines 134-140: the value of the local `traces`.
TakeTraces(res) ==
    IF res.ok THEN res.traces
    ELSE IF res.kind = "TransactionFailed" THEN res.traces
    ELSE << >>

take_traces(r) ==
    /\ pc[r] = "take_traces"
    /\ traces' = [traces EXCEPT ![r] = TakeTraces(response[r])]
    /\ response' = [response EXCEPT ![r] = [@ EXCEPT !.traces = << >>]]
    /\ pc' = [pc EXCEPT ![r] = "assemble"]
    /\ UNCHANGED << text, task, logResult, answer, solidity_trace, ret,
                    logCalls, engineCalls >>
    /\ UNCHANGED << rlpVars, hashVars, serdeVars, signVars >>

\* Lines 142-150 moved up: the Response is built as soon as the engine call
\* has been joined, from the locals as they are then.
assemble_before_traces(r) ==
    /\ pc[r] \in {"take_solidity_trace", "take_traces", "assemble"}
    /\ ret' = [ret EXCEPT ![r] =
                 OkResponse(ResponseData(response[r]), solidity_trace[r], traces[r])]
    /\ pc' = [pc EXCEPT ![r] = "done"]
    /\ UNCHANGED << text, task, logResult, answer, response, solidity_trace,
                    traces, logCalls, engineCalls >>
    /\ UNCHANGED << rlpVars, hashVars, serdeVars, signVars >>

\* Lines 142-150: build the body and return the Response.
assemble(r) ==
    /\ pc[r] = "assemble"
    /\ ret' = [ret EXCEPT ![r] =
                 OkResponse(ResponseData(response[r]), solidity_trace[r], traces[r])]
    /\ pc' = [pc EXCEPT ![r] = "done"]
    /\ UNCHANGED << text, task, logResult, answer, response, solidity_trace,
                    traces, logCalls, engineCalls >>
    /\ UNCHANGED << rlpVars, hashVars, serdeVars, signVars >>

ProviderNext ==
    \/ \E r \in Requests, t \in Texts : handle_request(r, t)
    \/ \E r \in Requests, o \in LogOutcomes : log_failed_deserialization(r, o)
    \/ \E r \in Requests : await_log(r)
    \/ \E r \in Requests, res \in EngineResults : engine_handle_request(r, res)
    \/ \E r \in Requests : engine_panic(r)
    \/ \E r \in Requests : engine_hang(r)
    \/ \E r \in Requests : await_engine(r)
    \/ \E r \in Requests : take_solidity_trace(r)
    \/ \E r \in Requests : take_traces(r)
    \/ \E r \in Requests : assemble(r)

(***************************************************************************)
(* Part II.  Eip2930SignedTransaction: RLP encoding and decoding           *)
(*                                                                         *)
(* Bytes are sequences of numbers 0..255.  A decoder returns a record      *)
(* [ok, val, rest]: whether it succeeded, the value, and the buffer left   *)
(* (alloy_rlp decoders advance a `&mut &[u8]`).                            *)
(***************************************************************************)

AddressLen == 20
B256Len == 32
U64Bytes == 8
U256Bytes == 32
\* alloy_rlp::EMPTY_STRING_CODE and EMPTY_LIST_CODE
EMPTY_STRING_CODE == 128
EMPTY_LIST_CODE == 192
\* Longest payload whose length fits the header's first byte.
ShortPayloadMax == 55

RECURSIVE to_be_bytes(_)
\* Big-endian bytes of n without leading zeros (empty for 0).
to_be_bytes(n) ==
    IF n = 0 THEN << >> ELSE Append(to_be_bytes(n \div 256), n % 256)

RECURSIVE from_be_bytes(_)
from_be_bytes(b) ==
    IF Len(b) = 0 THEN 0
    ELSE from_be_bytes(SubSeq(b, 1, Len(b) - 1)) * 256 + b[Len(b)]

Drop(b, n) == SubSeq(b, n + 1, Len(b))
Take(b, n) == SubSeq(b, 1, n)

\* alloy_rlp::Header::encode
HeaderEncode(list, len) ==
    LET code == IF list THEN EMPTY_LIST_CODE ELSE EMPTY_STRING_CODE
    IN  IF len <= ShortPayloadMax
        THEN << code + len >>
        ELSE << code + ShortPayloadMax + Len(to_be_bytes(len)) >> \o to_be_bytes(len)

\* impl Encodable for [u8] / Bytes / FixedBytes<N>
EncodeBytes(b) ==
    IF Len(b) = 1 /\ b[1] < EMPTY_STRING_CODE
    THEN b
    ELSE HeaderEncode(FALSE, Len(b)) \o b

\* impl Encodable for u64 / U256
EncodeUint(n) ==
    IF n = 0 THEN << EMPTY_STRING_CODE >>
    ELSE IF n < EMPTY_STRING_CODE THEN << n >>
    ELSE EncodeBytes(to_be_bytes(n))

\* impl Encodable for bool
EncodeBool(b) == IF b THEN << 1 >> ELSE << EMPTY_STRING_CODE >>

\* A list: header over the concatenated encodings of the items.
EncodeList(payload) == HeaderEncode(TRUE, Len(payload)) \o payload

RECURSIVE Concat(_)
Concat(seqs) ==
    IF Len(seqs) = 0 THEN << >> ELSE Head(seqs) \o Concat(Tail(seqs))

\* TransactionKind
Create == [tag |-> "Create", to |-> << >>]
Call(a) == [tag |-> "Call", to |-> a]

\* impl Encodable for TransactionKind
EncodeKind(k) ==
    IF k.tag = "Call" THEN EncodeBytes(k.to) ELSE << EMPTY_STRING_CODE >>

\* AccessListItem { address, storage_keys }
EncodeAccessListItem(item) ==
    EncodeList(EncodeBytes(item.address)
               \o EncodeList(Concat([i \in 1..Len(item.storage_keys) |->
                                        EncodeBytes(item.storage_keys[i])])))

\* AccessList = Vec<AccessListItem>
EncodeAccessList(al) ==
    EncodeList(Concat([i \in 1..Len(al) |-> EncodeAccessListItem(al[i])]))

\* #[derive(RlpEncodable)] with the field order of the struct broken:
\* s is written before r.
EncodeSwappedRS(tx) ==
    EncodeList(EncodeUint(tx.chain_id) \o EncodeUint(tx.nonce)
               \o EncodeUint(tx.gas_price) \o EncodeUint(tx.gas_limit)
               \o EncodeKind(tx.kind) \o EncodeUint(tx.value)
               \o EncodeBytes(tx.input) \o EncodeAccessList(tx.access_list)
               \o EncodeBool(tx.odd_y_parity)
               \o EncodeUint(tx.s) \o EncodeUint(tx.r))

\* #[derive(RlpEncodable)] for Eip2930SignedTransaction: the eleven fields
\* in declaration order; `hash` is #[rlp(skip)].
Encode(tx) ==
    EncodeList(EncodeUint(tx.chain_id) \o EncodeUint(tx.nonce)
               \o EncodeUint(tx.gas_price) \o EncodeUint(tx.gas_limit)
               \o EncodeKind(tx.kind) \o EncodeUint(tx.value)
               \o EncodeBytes(tx.input) \o EncodeAccessList(tx.access_list)
               \o EncodeBool(tx.odd_y_parity)
               \o EncodeUint(tx.r) \o EncodeUint(tx.s))

Fail == [ok |-> FALSE, val |-> 0, rest |-> << >>]
Done(v, rest) == [ok |-> TRUE, val |-> v, rest |-> rest]

\* The length bytes of a long header: big-endian, no leading zero, and a
\* length that did not fit the short form.
LongHeader(list, lenlen, rest) ==
    IF Len(rest) < lenlen THEN Fail
    ELSE IF rest[1] = 0 THEN Fail
    ELSE IF from_be_bytes(Take(rest, lenlen)) <= ShortPayloadMax THEN Fail
    ELSE Done([list |-> list, len |-> from_be_bytes(Take(rest, lenlen))],
              Drop(rest, lenlen))

\* The first byte's reading of alloy_rlp::Header::decode.
HeaderStart(buf) ==
    LET b == buf[1]
        rest == Tail(buf)
    IN  IF b < EMPTY_STRING_CODE
        THEN Done([list |-> FALSE, len |-> 1], buf)
        ELSE IF b <= EMPTY_STRING_CODE + ShortPayloadMax
        THEN IF b = EMPTY_STRING_CODE + 1 /\ Len(rest) >= 1 /\ rest[1] < EMPTY_STRING_CODE
             THEN Fail
             ELSE Done([list |-> FALSE, len |-> b - EMPTY_STRING_CODE], rest)
        ELSE IF b < EMPTY_LIST_CODE
        THEN LongHeader(FALSE, b - (EMPTY_STRING_CODE + ShortPayloadMax), rest)
        ELSE IF b <= EMPTY_LIST_CODE + ShortPayloadMax
        THEN Done([list |-> TRUE, len |-> b - EMPTY_LIST_CODE], rest)
        ELSE LongHeader(TRUE, b - (EMPTY_LIST_CODE + ShortPayloadMax), rest)

\* alloy_rlp::Header::decode: val is [list, len], rest starts at the payload.
HeaderDecode(buf) ==
    IF Len(buf) = 0 THEN Fail
    ELSE LET h == HeaderStart(buf)
         IN  IF ~h.ok THEN Fail
             ELSE IF Len(h.rest) < h.val.len THEN Fail
             ELSE h

\* Below, a decoder that uses the result of another binds it once, as
\*     CHOOSE d \in { <what follows, in terms of x> : x \in { <result> } } : TRUE
\* which reads LET x == <result> IN <what follows>.

\* alloy_rlp::Header::decode_bytes(buf, is_list): val is the payload.
DecodePayload(buf, is_list) ==
    CHOOSE d \in {
        IF ~h.ok THEN Fail
        ELSE IF h.val.list # is_list THEN Fail
        ELSE Done(Take(h.rest, h.val.len), Drop(h.rest, h.val.len))
      : h \in { HeaderDecode(buf) } } : TRUE

\* impl Decodable for uints of `width` bytes (static_left_pad).
DecodeUint(buf, width) ==
    CHOOSE d \in {
        IF ~p.ok THEN Fail
        ELSE IF Len(p.val) > width THEN Fail
        ELSE IF Len(p.val) = 0 THEN Done(0, p.rest)
        ELSE IF p.val[1] = 0 THEN Fail
        ELSE Done(from_be_bytes(p.val), p.rest)
      : p \in { DecodePayload(buf, FALSE) } } : TRUE

\* impl Decodable for bool
DecodeBool(buf) ==
    CHOOSE d \in {
        IF ~u.ok THEN Fail
        ELSE IF u.val = 0 THEN Done(FALSE, u.rest)
        ELSE IF u.val = 1 THEN Done(TRUE, u.rest)
        ELSE Fail
      : u \in { DecodeUint(buf, 1) } } : TRUE

\* impl Decodable for FixedBytes<n> (Address, B256)
DecodeFixed(buf, n) ==
    CHOOSE d \in {
        IF ~p.ok THEN Fail
        ELSE IF Len(p.val) # n THEN Fail
        ELSE p
      : p \in { DecodePayload(buf, FALSE) } } : TRUE

\* impl Decodable for Bytes
DecodeBytes(buf) == DecodePayload(buf, FALSE)

\* impl Decodable for TransactionKind
DecodeKind(buf) ==
    IF Len(buf) = 0 THEN Fail
    ELSE IF buf[1] = EMPTY_STRING_CODE THEN Done(Create, Tail(buf))
    ELSE CHOOSE d \in {
             IF ~a.ok THEN Fail ELSE Done(Call(a.val), a.rest)
           : a \in { DecodeFixed(buf, AddressLen) } } : TRUE

RECURSIVE DecodeKeys(_, _)
\* The items of a Vec<B256>: decode until the payload is used up.
DecodeKeys(payload, acc) ==
    IF Len(payload) = 0 THEN Done(acc, << >>)
    ELSE CHOOSE d \in {
             IF ~k.ok THEN Fail ELSE DecodeKeys(k.rest, Append(acc, k.val))
           : k \in { DecodeFixed(payload, B256Len) } } : TRUE

\* impl Decodable for Vec<B256>
DecodeKeyList(buf) ==
    CHOOSE d \in {
        IF ~l.ok THEN Fail
        ELSE CHOOSE e \in {
                 IF ~ks.ok THEN Fail ELSE Done(ks.val, l.rest)
               : ks \in { DecodeKeys(l.val, << >>) } } : TRUE
      : l \in { DecodePayload(buf, TRUE) } } : TRUE

\* The fields of AccessListItem from the item's payload, which must be used
\* up by them (consumed = payload_length).
DecodeItemFields(payload) ==
    CHOOSE d \in {
        IF ~a.ok THEN Fail
        ELSE CHOOSE e \in {
                 IF ~ks.ok THEN Fail
                 ELSE IF Len(ks.rest) # 0 THEN Fail
                 ELSE Done([address |-> a.val, storage_keys |-> ks.val], << >>)
               : ks \in { DecodeKeyList(a.rest) } } : TRUE
      : a \in { DecodeFixed(payload, AddressLen) } } : TRUE

\* #[derive(RlpDecodable)] for AccessListItem
DecodeAccessListItem(buf) ==
    CHOOSE d \in {
        IF ~l.ok THEN Fail
        ELSE CHOOSE e \in {
                 IF ~f.ok THEN Fail ELSE Done(f.val, l.rest)
               : f \in { DecodeItemFields(l.val) } } : TRUE
      : l \in { DecodePayload(buf, TRUE) } } : TRUE

RECURSIVE DecodeItems(_, _)
DecodeItems(payload, acc) ==
    IF Len(payload) = 0 THEN Done(acc, << >>)
    ELSE CHOOSE d \in {
             IF ~it.ok THEN Fail ELSE DecodeItems(it.rest, Append(acc, it.val))
           : it \in { DecodeAccessListItem(payload) } } : TRUE

\* impl Decodable for Vec<AccessListItem>
DecodeAccessList(buf) ==
    CHOOSE d \in {
        IF ~l.ok THEN Fail
        ELSE CHOOSE e \in {
                 IF ~items.ok THEN Fail ELSE Done(items.val, l.rest)
               : items \in { DecodeItems(l.val, << >>) } } : TRUE
      : l \in { DecodePayload(buf, TRUE) } } : TRUE

\* The field types of Eip2930SignedTransaction, in declaration order.
FieldTypes ==
    << "u64", "u64", "U256", "u64", "TransactionKind", "U256", "Bytes",
       "AccessList", "bool", "U256", "U256" >>

DecodeField(type, buf) ==
    CASE type = "u64"             -> DecodeUint(buf, U64Bytes)
      [] type = "U256"            -> DecodeUint(buf, U256Bytes)
      [] type = "TransactionKind" -> DecodeKind(buf)
      [] type = "Bytes"           -> DecodeBytes(buf)
      [] type = "AccessList"      -> DecodeAccessList(buf)
      [] type = "bool"            -> DecodeBool(buf)

RECURSIVE DecodeFields(_, _, _)
\* The fields one after the other, each from where the last one stopped.
DecodeFields(types, buf, acc) ==
    IF Len(types) = 0 THEN Done(acc, buf)
    ELSE CHOOSE d \in {
             IF ~f.ok THEN Fail
             ELSE DecodeFields(Tail(types), f.rest, Append(acc, f.val))
           : f \in { DecodeField(Head(types), buf) } } : TRUE

\* The struct: eleven protocol fields and the OnceLock<B256> cache.
Envelope(f, hash) ==
    [chain_id |-> f[1], nonce |-> f[2], gas_price |-> f[3], gas_limit |-> f[4],
     kind |-> f[5], value |-> f[6], input |-> f[7], access_list |-> f[8],
     odd_y_parity |-> f[9], r |-> f[10], s |-> f[11], hash |-> hash]

\* #[derive(RlpDecodable)] for Eip2930SignedTransaction: a list header, the
\* fields, and exactly payload_length bytes consumed; `hash` is
\* #[rlp(default)], an empty cell.  rest is what follows the list.
Decode(buf) ==
    CHOOSE d \in {
        IF ~h.ok THEN Fail
        ELSE IF ~h.val.list THEN Fail
        ELSE CHOOSE e \in {
                 IF ~f.ok THEN Fail
                 ELSE IF Len(h.rest) - Len(f.rest) # h.val.len THEN Fail
                 ELSE Done(Envelope(f.val, None), f.rest)
               : f \in { DecodeFields(FieldTypes, h.rest, << >>) } } : TRUE
      : h \in { HeaderDecode(buf) } } : TRUE

\* #[derive(PartialEq)] as it would be: the cache compared as well.
eq_derived(a, b) == a = b

\* impl PartialEq for Eip2930SignedTransaction (lines 61-75)
eq(a, b) ==
    /\ a.chain_id = b.chain_id
    /\ a.nonce = b.nonce
    /\ a.gas_price = b.gas_price
    /\ a.gas_limit = b.gas_limit
    /\ a.kind = b.kind
    /\ a.value = b.value
    /\ a.input = b.input
    /\ a.access_list = b.access_list
    /\ a.odd_y_parity = b.odd_y_parity
    /\ a.r = b.r
    /\ a.s = b.s

\* alloy_primitives::keccak256, as an uninterpreted injective function:
\* the digest of a byte string is a value that names the string.
keccak256(bytes) == [keccak256 |-> bytes]

\* crate::utils::envelop_bytes(id, bytes): the type tag, then the bytes.
envelop_bytes(id, bytes) == << id >> \o bytes

\* The closure of Eip2930SignedTransaction::hash (lines 42-45).
ComputeHash(tx) == keccak256(envelop_bytes(1, Encode(tx)))

\* ---- sample values -------------------------------------------------------

ZeroAddress == [i \in 1..AddressLen |-> 0]
\* 0xc014ba5ec014ba5ec014ba5ec014ba5ec014ba5e (dummy_request)
DummyTo == [i \in 1..AddressLen |-> << 192, 20, 186, 94 >>[((i - 1) % 4) + 1]]
ZeroKey == [i \in 1..B256Len |-> 0]
OneKey == [i \in 1..B256Len |-> IF i = B256Len THEN 1 ELSE 0]

\* dummy_request's access list
DummyAccessList ==
    << [address |-> ZeroAddress, storage_keys |-> << ZeroKey, OneKey >>] >>

AccessLists ==
    { << >>,
      DummyAccessList,
      << [address |-> DummyTo, storage_keys |-> << >>],
         [address |-> ZeroAddress, storage_keys |-> << OneKey >>] >> }

Inputs == { << >>, << 18, 52 >>, << 127 >>, << 128 >> }

\* Valid envelopes: every combination of these field values.
TxSamples ==
    { Envelope(<< c, n, gp, gl, k, v, i, al, p, r, s >>, None) :
        c \in {0, 1, 128}, n \in {1, 255}, gp \in {2, 256}, gl \in {3},
        k \in {Create, Call(DummyTo)}, v \in {4, 127}, i \in Inputs,
        al \in AccessLists, p \in BOOLEAN, r \in {1, 300}, s \in {300} }

\* dummy_request signed (r and s stand for the signature scalars).
DummyTx ==
    Envelope(<< 1, 1, 2, 3, Call(DummyTo), 4, << 18, 52 >>, DummyAccessList,
                TRUE, 1, 300 >>, None)

(***************************************************************************)
(* Part II.a  Encoding round trip (specification SpecRlp)                  *)
(***************************************************************************)


RlpInit ==
    /\ rlpPc = "start"
    /\ rlpTx \in TxSamples
    /\ rlpBytes = << >>
    /\ rlpDecoded = Fail

RlpParked ==
    /\ rlpPc = "parked"
    /\ rlpTx = DummyTx
    /\ rlpBytes = << >>
    /\ rlpDecoded = Fail

\* x.hash() before encoding: the cache is populated.
rlp_hash ==
    /\ rlpPc = "start"
    /\ rlpTx.hash = None
    /\ rlpTx' = [rlpTx EXCEPT !.hash = Some(ComputeHash(rlpTx))]
    /\ UNCHANGED << rlpPc, rlpBytes, rlpDecoded >>
    /\ UNCHANGED << providerVars, hashVars, serdeVars, signVars >>

\* alloy_rlp::encode(&x)
rlp_encode ==
    /\ rlpPc = "start"
    /\ rlpBytes' = Encode(rlpTx)
    /\ rlpPc' = "encoded"
    /\ UNCHANGED << rlpTx, rlpDecoded >>
    /\ UNCHANGED << providerVars, hashVars, serdeVars, signVars >>

\* Eip2930SignedTransaction::decode(&mut encoded.as_slice())
rlp_decode ==
    /\ rlpPc = "encoded"
    /\ rlpDecoded' = Decode(rlpBytes)
    /\ rlpPc' = "decoded"
    /\ UNCHANGED << rlpTx, rlpBytes >>
    /\ UNCHANGED << providerVars, hashVars, serdeVars, signVars >>

RlpNext ==
    \/ rlp_hash
    \/ rlp_encode
    \/ rlp_decode

(***************************************************************************)
(* Part II.a'  Decoding received bytes (specification SpecDecode)          *)
(***************************************************************************)

\* The encodings of the eleven fields, in declaration order.
FieldBytes(tx) ==
    << EncodeUint(tx.chain_id), EncodeUint(tx.nonce), EncodeUint(tx.gas_price),
       EncodeUint(tx.gas_limit), EncodeKind(tx.kind), EncodeUint(tx.value),
       EncodeBytes(tx.input), EncodeAccessList(tx.access_list),
       EncodeBool(tx.odd_y_parity), EncodeUint(tx.r), EncodeUint(tx.s) >>

\* A byte string of n bytes that reads as 256^(n-1).
PowerOf256(n) == [i \in 1..n |-> IF i = 1 THEN 1 ELSE 0]

\* A value no field of the type can hold: 2^64 for a u64, 2^256 for a
\* U256, 2 for a bool, 21 bytes for the address of a TransactionKind.
\* Bytes and the access list have no range.
OutOfRangeValue(type) ==
    CASE type = "u64"             -> EncodeBytes(PowerOf256(U64Bytes + 1))
      [] type = "U256"            -> EncodeBytes(PowerOf256(U256Bytes + 1))
      [] type = "bool"            -> << 2 >>
      [] type = "TransactionKind" -> EncodeBytes(PowerOf256(AddressLen + 1))

RangedFields ==
    { i \in 1..Len(FieldTypes) : FieldTypes[i] \notin {"Bytes", "AccessList"} }

\* The encoding of tx with field i replaced by a value out of its range.
EncodeOutOfRange(tx, i) ==
    EncodeList(Concat([FieldBytes(tx) EXCEPT ![i] = OutOfRangeValue(FieldTypes[i])]))

\* Bytes that may follow a valid encoding.
ExtraBytes == { << 0 >>, << 128 >>, << 192 >>, << 1, 2 >> }

\* The envelopes whose encodings are sent.
DecodeSamples ==
    { t \in TxSamples :
        /\ t.nonce = 1 /\ t.gas_price = 2 /\ t.value = 4 /\ t.r = 1
        /\ t.chain_id \in {1, 128}
        /\ t.input \in { << >>, << 18, 52 >> }
        /\ t.access_list \in { << >>, DummyAccessList } }

DecodeInit ==
    /\ rlpPc = "start"
    /\ rlpTx \in DecodeSamples
    /\ rlpBytes = << >>
    /\ rlpDecoded = Fail

\* Only the first n bytes of the encoding arrive, n < its length.
truncate(n) ==
    /\ rlpPc = "encoded"
    /\ n < Len(rlpBytes)
    /\ rlpBytes' = Take(rlpBytes, n)
    /\ rlpPc' = "truncated"
    /\ UNCHANGED << rlpTx, rlpDecoded >>
    /\ UNCHANGED << providerVars, hashVars, serdeVars, signVars >>

\* The encoding arrives followed by extra bytes.
append_bytes(extra) ==
    /\ rlpPc = "encoded"
    /\ rlpBytes' = rlpBytes \o extra
    /\ rlpPc' = "trailing"
    /\ UNCHANGED << rlpTx, rlpDecoded >>
    /\ UNCHANGED << providerVars, hashVars, serdeVars, signVars >>

\* The encoding arrives with field i out of its range.
out_of_range(i) ==
    /\ rlpPc = "encoded"
    /\ rlpBytes' = EncodeOutOfRange(rlpTx, i)
    /\ rlpPc' = "out_of_range"
    /\ UNCHANGED << rlpTx, rlpDecoded >>
    /\ UNCHANGED << providerVars, hashVars, serdeVars, signVars >>

Received == { "truncated", "trailing", "out_of_range" }

AfterDecode ==
    [truncated |-> "decoded_truncated", trailing |-> "decoded_trailing",
     out_of_range |-> "decoded_out_of_range"]

\* Eip2930SignedTransaction::decode(&mut received.as_slice())
decode_received ==
    /\ rlpPc \in Received
    /\ rlpDecoded' = Decode(rlpBytes)
    /\ rlpPc' = AfterDecode[rlpPc]
    /\ UNCHANGED << rlpTx, rlpBytes >>
    /\ UNCHANGED << providerVars, hashVars, serdeVars, signVars >>

DecodeNext ==
    \/ rlp_encode
    \/ \E n \in 0..(Len(rlpBytes) - 1) : truncate(n)
    \/ \E extra \in ExtraBytes : append_bytes(extra)
    \/ \E i \in RangedFields : out_of_range(i)
    \/ decode_received

(***************************************************************************)
(* Part II.b  The memoized hash and equality (specification SpecHash)      *)
(***************************************************************************)

\* Threads sharing one envelope by reference.
Threads == {"t1", "t2", "t3"}

\* Envelopes the hash model starts from: some equal, some not.
HashSamples ==
    { DummyTx,
      [DummyTx EXCEPT !.nonce = 255],
      [DummyTx EXCEPT !.s = 1, !.r = 300] }


HashInit ==
    /\ self \in HashSamples
    /\ once = "incomplete"
    /\ tpc = [t \in Threads |-> "idle"]
    /\ returned = {}
    /\ writes = 0
    /\ other \in HashSamples

HashParked ==
    /\ self = DummyTx
    /\ once = "parked"
    /\ tpc = [t \in Threads |-> "parked"]
    /\ returned = {}
    /\ writes = 0
    /\ other = DummyTx

\* OnceLock::is_initialized
is_initialized == once = "complete"

\* A thread calls self.hash(): OnceLock::get_or_init begins.
hash(t) ==
    /\ tpc[t] = "idle"
    /\ tpc' = [tpc EXCEPT ![t] = "get"]
    /\ UNCHANGED << self, once, returned, writes, other >>
    /\ UNCHANGED << providerVars, rlpVars, serdeVars, signVars >>

\* A cache that is checked against the fields: a populated cell is not
\* trusted, the digest of the current fields is returned.
once_get_validating(t) ==
    /\ tpc[t] = "get"
    /\ IF is_initialized
       THEN /\ returned' = returned \cup { Some(ComputeHash(self)) }
            /\ tpc' = [tpc EXCEPT ![t] = "idle"]
       ELSE /\ returned' = returned
            /\ tpc' = [tpc EXCEPT ![t] = "call_once"]
    /\ UNCHANGED << self, once, writes, other >>
    /\ UNCHANGED << providerVars, rlpVars, serdeVars, signVars >>

\* OnceLock::get: the fast path returns the cached value.
once_get(t) ==
    /\ tpc[t] = "get"
    /\ IF is_initialized
       THEN /\ returned' = returned \cup { self.hash }
            /\ tpc' = [tpc EXCEPT ![t] = "idle"]
       ELSE /\ returned' = returned
            /\ tpc' = [tpc EXCEPT ![t] = "call_once"]
    /\ UNCHANGED << self, once, writes, other >>
    /\ UNCHANGED << providerVars, rlpVars, serdeVars, signVars >>

\* A check-then-act cache: a caller that finds another initializer running
\* does not wait for it and initializes as well.
call_once_unguarded(t) ==
    /\ tpc[t] = "call_once"
    /\ IF once = "complete"
       THEN /\ tpc' = [tpc EXCEPT ![t] = "read"]
            /\ once' = once
       ELSE /\ tpc' = [tpc EXCEPT ![t] = "init"]
            /\ once' = "running"
    /\ UNCHANGED << self, returned, writes, other >>
    /\ UNCHANGED << providerVars, rlpVars, serdeVars, signVars >>

\* Once::call_once_force: the first caller becomes the initializer, a caller
\* that finds it running waits, a caller that finds it complete goes on.
call_once(t) ==
    /\ tpc[t] = "call_once"
    /\ once # "running"
    /\ IF once = "incomplete"
       THEN /\ once' = "running"
            /\ tpc' = [tpc EXCEPT ![t] = "init"]
       ELSE /\ once' = once
            /\ tpc' = [tpc EXCEPT ![t] = "read"]
    /\ UNCHANGED << self, returned, writes, other >>
    /\ UNCHANGED << providerVars, rlpVars, serdeVars, signVars >>

\* The initializer runs the closure of lines 41-46 and writes the slot.
once_init(t) ==
    /\ tpc[t] = "init"
    /\ self' = [self EXCEPT !.hash = Some(ComputeHash(self))]
    /\ writes' = writes + 1
    /\ tpc' = [tpc EXCEPT ![t] = "complete"]
    /\ UNCHANGED << once, returned, other >>
    /\ UNCHANGED << providerVars, rlpVars, serdeVars, signVars >>

\* The initializer leaves call_once_force: the Once is complete.
once_complete(t) ==
    /\ tpc[t] = "complete"
    /\ once' = "complete"
    /\ tpc' = [tpc EXCEPT ![t] = "read"]
    /\ UNCHANGED << self, returned, writes, other >>
    /\ UNCHANGED << providerVars, rlpVars, serdeVars, signVars >>

\* get_or_init returns a reference to the slot's value.
once_read(t) ==
    /\ tpc[t] = "read"
    /\ returned' = returned \cup { self.hash }
    /\ tpc' = [tpc EXCEPT ![t] = "idle"]
    /\ UNCHANGED << self, once, writes, other >>
    /\ UNCHANGED << providerVars, rlpVars, serdeVars, signVars >>

\* other.hash() by the thread that owns `other`: get_or_init start to end.
other_hash ==
    /\ other' = IF other.hash = None
                THEN [other EXCEPT !.hash = Some(ComputeHash(other))]
                ELSE other
    /\ other' # other
    /\ UNCHANGED << self, once, tpc, returned, writes >>
    /\ UNCHANGED << providerVars, rlpVars, serdeVars, signVars >>

HashNext ==
    \/ \E t \in Threads : hash(t)
    \/ \E t \in Threads : once_get(t)
    \/ \E t \in Threads : call_once(t)
    \/ \E t \in Threads : once_init(t)
    \/ \E t \in Threads : once_complete(t)
    \/ \E t \in Threads : once_read(t)
    \/ other_hash

(***************************************************************************)
(* Part II.b'  Field writes on an envelope (specification SpecStale)       *)
(***************************************************************************)

\* Values written to the public field `nonce`.
Nonces == {1, 7, 255}

\* self.nonce = n, through a &mut borrow: no call of hash() is in progress
\* on this envelope.  The cell `hash` is not touched.  From here on
\* `returned` collects what hash() returns after this write.
set_nonce(n) ==
    /\ \A t \in Threads : tpc[t] = "idle"
    /\ self.nonce # n
    /\ self' = [self EXCEPT !.nonce = n]
    /\ returned' = {}
    /\ UNCHANGED << once, tpc, writes, other >>
    /\ UNCHANGED << providerVars, rlpVars, serdeVars, signVars >>

StaleNext ==
    \/ \E t \in Threads : hash(t)
    \/ \E t \in Threads : once_get(t)
    \/ \E t \in Threads : call_once(t)
    \/ \E t \in Threads : once_init(t)
    \/ \E t \in Threads : once_complete(t)
    \/ \E t \in Threads : once_read(t)
    \/ \E n \in Nonces : set_nonce(n)

(***************************************************************************)
(* Part II.c  Signing and Eip2930SignedTransaction::recover                *)
(*            (specification SpecSign)                                     *)
(*                                                                         *)
(* The curve arithmetic stands on a small group: the subgroup of order     *)
(* CurveOrder of the integers modulo CurveP, generated by Generator.  A    *)
(* secret key is a scalar x, its public key Generator^x.  A signature of   *)
(* the scalar z under the nonce k is the point R = Generator^k, given as   *)
(* r = R mod CurveOrder and the parity of R, and s = (z + x r) / k.        *)
(***************************************************************************)

CurveP == 23
CurveOrder == 11
Generator == 2

RECURSIVE PowMod(_, _, _)
PowMod(b, e, m) == IF e = 0 THEN 1 ELSE (b * PowMod(b, e - 1, m)) % m

\* 1 / a modulo the (prime) group order
InvModOrder(a) == PowMod(a, CurveOrder - 2, CurveOrder)

\* The points other than the identity.
Points == { PowMod(Generator, k, CurveP) : k \in 1..(CurveOrder - 1) }

\* k256::SecretKey: the valid private keys
SecretKeys == 1..(CurveOrder - 1)

\* The public key of a secret key, and the address derived from it.
public_key(x) == PowMod(Generator, x, CurveP)
public_key_to_address(y) == [address_of |-> y]

RECURSIVE SumBytes(_)
SumBytes(b) ==
    IF Len(b) = 0 THEN 0
    ELSE IF Len(b) = 1 THEN b[1]
    ELSE SumBytes(SubSeq(b, 1, Len(b) \div 2))
         + SumBytes(SubSeq(b, (Len(b) \div 2) + 1, Len(b)))

\* A digest read as a scalar of the group.
Scalar(digest) == SumBytes(digest.keccak256) % CurveOrder

\* Result<Address, SignatureError>
SignatureError == [ok |-> FALSE, address |-> [address_of |-> 0]]
Recovered(a) == [ok |-> TRUE, address |-> a]

\* The signature of the scalar z by the secret key x under the nonce k.
SignatureWith(x, z, k) ==
    [r |-> PowMod(Generator, k, CurveP) % CurveOrder,
     s |-> (InvModOrder(k) * ((z + x * (PowMod(Generator, k, CurveP) % CurveOrder))
                              % CurveOrder)) % CurveOrder,
     v |-> PowMod(Generator, k, CurveP) % 2]

\* The nonces in the order the signer tries them, which depends on the key
\* and the message alone (deterministic signing).
NonceRank(x, z, k) ==
    (k + (CurveOrder - 1) - (((x + z) % (CurveOrder - 1)) + 1)) % (CurveOrder - 1)

UsableNonce(x, z, k) == SignatureWith(x, z, k).r # 0 /\ SignatureWith(x, z, k).s # 0

\* Signature::new(hash, secret_key)
SignatureNew(digest, x) ==
    SignatureWith(x, Scalar(digest),
        CHOOSE k \in 1..(CurveOrder - 1) :
            /\ UsableNonce(x, Scalar(digest), k)
            /\ \A j \in 1..(CurveOrder - 1) :
                 UsableNonce(x, Scalar(digest), j) =>
                    NonceRank(x, Scalar(digest), k) <= NonceRank(x, Scalar(digest), j))

\* The points whose coordinate is r and whose parity is v.
PointsOf(r, v) == { R \in Points : R % CurveOrder = r /\ R % 2 = v }

\* The public key that signed the scalar z with (R, s), R having coordinate r.
RecoverKey(R, r, s, z) ==
    (PowMod(R, (s * InvModOrder(r)) % CurveOrder, CurveP)
     * PowMod(Generator, ((CurveOrder - z) * InvModOrder(r)) % CurveOrder, CurveP)) % CurveP

\* Signature::recover(message hash): fails on a zero or out-of-range r or s,
\* on a parity that is not 0 or 1, and when no point or no public key is
\* recovered.
SignatureRecover(sig, digest) ==
    IF sig.r \notin 1..(CurveOrder - 1) \/ sig.s \notin 1..(CurveOrder - 1)
    THEN SignatureError
    ELSE IF sig.v \notin {0, 1} THEN SignatureError
    ELSE IF PointsOf(sig.r, sig.v) = {} THEN SignatureError
    ELSE IF RecoverKey(CHOOSE R \in PointsOf(sig.r, sig.v) : TRUE,
                       sig.r, sig.s, Scalar(digest)) = 1
    THEN SignatureError
    ELSE Recovered(public_key_to_address(
            RecoverKey(CHOOSE R \in PointsOf(sig.r, sig.v) : TRUE,
                       sig.r, sig.s, Scalar(digest))))

\* Eip2930TransactionRequest: the envelope's fields without the signature.
Request(c, n, gp, gl, k, v, i, al) ==
    [chain_id |-> c, nonce |-> n, gas_price |-> gp, gas_limit |-> gl,
     kind |-> k, value |-> v, input |-> i, access_list |-> al]

\* Eip2930TransactionRequest::from(&Eip2930SignedTransaction)
RequestFrom(tx) ==
    Request(tx.chain_id, tx.nonce, tx.gas_price, tx.gas_limit, tx.kind,
            tx.value, tx.input, tx.access_list)

\* Eip2930TransactionRequest::hash: the digest of the type tag and the
\* encoding of the eight fields.
RequestHash(req) ==
    keccak256(envelop_bytes(1,
        EncodeList(EncodeUint(req.chain_id) \o EncodeUint(req.nonce)
                   \o EncodeUint(req.gas_price) \o EncodeUint(req.gas_limit)
                   \o EncodeKind(req.kind) \o EncodeUint(req.value)
                   \o EncodeBytes(req.input) \o EncodeAccessList(req.access_list))))

\* The envelope of a request and a signature, its cache empty.
Signed(req, sig) ==
    Envelope(<< req.chain_id, req.nonce, req.gas_price, req.gas_limit, req.kind,
                req.value, req.input, req.access_list, sig.v = 1, sig.r, sig.s >>,
             None)

\* Eip2930TransactionRequest::sign(secret_key)
sign(req, x) == Signed(req, SignatureNew(RequestHash(req), x))

\* Lines 50-58 with the parity the other way round.
recover_inverted(tx) ==
    SignatureRecover([r |-> tx.r, s |-> tx.s,
                      v |-> IF tx.odd_y_parity THEN 0 ELSE 1],
                     RequestHash(RequestFrom(tx)))

\* recover() taking the digest from the envelope's hash cache when the
\* cache is populated.
recover_cached(tx) ==
    SignatureRecover([r |-> tx.r, s |-> tx.s,
                      v |-> IF tx.odd_y_parity THEN 1 ELSE 0],
                     IF tx.hash = None THEN RequestHash(RequestFrom(tx))
                     ELSE tx.hash[1])

\* Eip2930SignedTransaction::recover (lines 50-58)
recover(tx) ==
    SignatureRecover([r |-> tx.r, s |-> tx.s,
                      v |-> IF tx.odd_y_parity THEN 1 ELSE 0],
                     RequestHash(RequestFrom(tx)))

\* dummy_request (lines 87-103) and its neighbours
RequestSamples ==
    { Request(c, 1, 2, 3, Call(DummyTo), 4, i, DummyAccessList) :
        c \in {1, 128}, i \in {<< >>, << 18, 52 >>} }

\* Scalars a signature field may hold: zero, the valid ones, and beyond.
Scalars == 0..(CurveOrder + 1)

SignInit ==
    /\ signPc = "start"
    /\ request \in RequestSamples
    /\ secret_key \in SecretKeys
    /\ signed = Signed(request, [r |-> 0, s |-> 0, v |-> 0])
    /\ recovered = << >>

SignParked ==
    /\ signPc = "parked"
    /\ request = RequestFrom(DummyTx)
    /\ secret_key = 1
    /\ signed = DummyTx
    /\ recovered = << >>

\* let signed = request.sign(&secret_key)
sign_request ==
    /\ signPc = "start"
    /\ signed' = sign(request, secret_key)
    /\ signPc' = "signed"
    /\ UNCHANGED << request, secret_key, recovered >>
    /\ UNCHANGED << providerVars, rlpVars, hashVars, serdeVars >>

\* An envelope that was not produced by signing: any r, s and parity.
receive(r, s, p) ==
    /\ signPc = "start"
    /\ signed' = [signed EXCEPT !.r = r, !.s = s, !.odd_y_parity = p]
    /\ signPc' = "received"
    /\ UNCHANGED << request, secret_key, recovered >>
    /\ UNCHANGED << providerVars, rlpVars, hashVars, serdeVars >>

\* signed.hash(): the cache is populated, before or between recoveries.
sign_hash ==
    /\ signPc \in {"signed", "received"}
    /\ signed.hash = None
    /\ signed' = [signed EXCEPT !.hash = Some(ComputeHash(signed))]
    /\ UNCHANGED << signPc, request, secret_key, recovered >>
    /\ UNCHANGED << providerVars, rlpVars, hashVars, serdeVars >>

\* signed.recover(), called up to twice on the same envelope
sign_recover ==
    /\ signPc \in {"signed", "received"}
    /\ Len(recovered) < 2
    /\ recovered' = Append(recovered, recover(signed))
    /\ UNCHANGED << signPc, request, secret_key, signed >>
    /\ UNCHANGED << providerVars, rlpVars, hashVars, serdeVars >>

SignNext ==
    \/ sign_request
    \/ \E r \in Scalars, s \in Scalars, p \in BOOLEAN : receive(r, s, p)
    \/ sign_hash
    \/ sign_recover

(***************************************************************************)
(* Part III.  MethodInvocation and its (de)serialization                   *)
(*            (specification SpecSerde)                                    *)
(*                                                                         *)
(* The serializer and deserializer are the ones the integration tests of   *)
(* eth_request_serialization.rs drive.  A JSON value is a record [j, v]:   *)
(*   null, a boolean, a number, a word (a string that is no 0x-string),    *)
(*   a 0x-string (v: its hex digits, as numbers 0..15), an array, an       *)
(*   object (v: a function from keys to JSON values).                      *)
(* A deserializer returns [ok, val].                                       *)
(***************************************************************************)

JNull == [j |-> "null", v |-> 0]
JBool(b) == [j |-> "bool", v |-> b]
JNum(n) == [j |-> "num", v |-> n]
JWord(w) == [j |-> "word", v |-> w]
JHex(digits) == [j |-> "hex", v |-> digits]
JArr(items) == [j |-> "arr", v |-> items]
JObj(fields) == [j |-> "obj", v |-> fields]

Bad == [ok |-> FALSE, val |-> 0]
Good(v) == [ok |-> TRUE, val |-> v]

AddressDigits == 40
B256Digits == 64

RECURSIVE HexDigits(_)
\* The hex digits of n, most significant first, none for 0.
HexDigits(n) ==
    IF n = 0 THEN << >> ELSE Append(HexDigits(n \div 16), n % 16)

\* The digits of d from its first non-zero digit on.
Significant(d) ==
    IF \A i \in 1..Len(d) : d[i] = 0 THEN << >>
    ELSE SubSeq(d, CHOOSE i \in 1..Len(d) : d[i] # 0 /\ \A k \in 1..(i - 1) : d[k] = 0,
                Len(d))

RECURSIVE HexValue(_)
HexValue(d) ==
    IF Len(d) = 0 THEN 0
    ELSE HexValue(SubSeq(d, 1, Len(d) - 1)) * 16 + d[Len(d)]

\* The number a sequence of hex digits stands for.
FromHexDigits(d) == HexValue(Significant(d))

\* A quantity: "0x0", or "0x" and the digits without leading zeros.
SerQuantity(n) == JHex(IF n = 0 THEN << 0 >> ELSE HexDigits(n))

DeQuantity(js) ==
    IF js.j # "hex" THEN Bad
    ELSE IF Len(js.v) = 0 THEN Bad
    ELSE IF Len(js.v) > 1 /\ js.v[1] = 0 THEN Bad
    ELSE Good(FromHexDigits(js.v))

\* Fixed-width data (Address, B256): "0x" and exactly `width` digits.
SerFixed(n, width) ==
    JHex([i \in 1..width |->
            IF i <= width - Len(HexDigits(n)) THEN 0
            ELSE HexDigits(n)[i - (width - Len(HexDigits(n)))]])

DeFixed(js, width) ==
    IF js.j # "hex" THEN Bad
    ELSE IF Len(js.v) # width THEN Bad
    ELSE Good(FromHexDigits(js.v))

\* Bytes: "0x" and two digits per byte.
SerBytes(b) ==
    JHex([i \in 1..(2 * Len(b)) |->
            IF i % 2 = 1 THEN b[(i + 1) \div 2] \div 16 ELSE b[i \div 2] % 16])

DeBytes(js) ==
    IF js.j # "hex" THEN Bad
    ELSE IF Len(js.v) % 2 # 0 THEN Bad
    ELSE Good([i \in 1..(Len(js.v) \div 2) |-> js.v[2 * i - 1] * 16 + js.v[2 * i]])

\* BlockSpec and PreEip1898BlockSpec: a block number, written as a quantity,
\* or a block tag, written as its name.
BlockTags == {"earliest", "latest", "pending", "safe", "finalized"}
BlockNumber(n) == [alt |-> "Number", n |-> n, tag |-> "none"]
BlockTag(t) == [alt |-> "Tag", n |-> 0, tag |-> t]
\* BlockSpec::latest() and BlockSpec::pending()
latest == BlockTag("latest")
pending == BlockTag("pending")

SerBlockSpec(b) == IF b.alt = "Number" THEN SerQuantity(b.n) ELSE JWord(b.tag)

DeBlockSpec(js) ==
    IF js.j = "word"
    THEN IF js.v \in BlockTags THEN Good(BlockTag(js.v)) ELSE Bad
    ELSE IF DeQuantity(js).ok THEN Good(BlockNumber(DeQuantity(js).val)) ELSE Bad

\* U64OrUsize: untagged; U64 is a quantity string, Usize a JSON number.
U64(n) == [alt |-> "U64", n |-> n]
Usize(n) == [alt |-> "Usize", n |-> n]

SerU64OrUsize(x) == IF x.alt = "U64" THEN SerQuantity(x.n) ELSE JNum(x.n)

\* A deserializer that takes every number for the U64 alternative.
DeNumberAsU64(js) ==
    IF js.j = "num" THEN Good(U64(js.v))
    ELSE IF DeQuantity(js).ok THEN Good(U64(DeQuantity(js).val)) ELSE Bad

DeU64OrUsize(js) ==
    IF js.j = "num" THEN Good(Usize(js.v))
    ELSE IF DeQuantity(js).ok THEN Good(U64(DeQuantity(js).val)) ELSE Bad

\* OneUsizeOrTwo: untagged; One is a number, Two an array of two numbers.
One(n) == [alt |-> "One", n |-> << n >>]
Two(a, b) == [alt |-> "Two", n |-> << a, b >>]

SerOneUsizeOrTwo(x) ==
    IF x.alt = "One" THEN JNum(x.n[1]) ELSE JArr(<< JNum(x.n[1]), JNum(x.n[2]) >>)

DeOneUsizeOrTwo(js) ==
    IF js.j = "num" THEN Good(One(js.v))
    ELSE IF js.j = "arr" /\ Len(js.v) = 2 /\ js.v[1].j = "num" /\ js.v[2].j = "num"
    THEN Good(Two(js.v[1].v, js.v[2].v))
    ELSE Bad

SubscriptionTypes == {"logs", "newPendingTransactions", "newHeads"}

\* Types, as records [k, of]: a kind and its component types.
T(k) == [k |-> k, of |-> << >>]
Option(ty) == [k |-> "Option", of |-> << ty >>]
Vec(ty) == [k |-> "Vec", of |-> << ty >>]
OneOrMore(ty) == [k |-> "OneOrMore", of |-> << ty >>]
\* A struct: its fields, each [name, ty], name being the JSON key.
Struct(fields) == [k |-> "Struct", of |-> fields]
Field(name, ty) == [name |-> name, ty |-> ty]

\* OneOrMore values
OneOf(v) == [alt |-> "One", val |-> << v >>]
ManyOf(vs) == [alt |-> "Many", val |-> vs]

FieldNames(ty) == { ty.of[i].name : i \in 1..Len(ty.of) }
FieldType(ty, name) == (CHOOSE i \in 1..Len(ty.of) : ty.of[i].name = name)

RECURSIVE Ser(_, _)
\* Serialize for a value v of type ty.
Ser(ty, v) ==
    CASE ty.k \in {"U256", "U64"}   -> SerQuantity(v)
      [] ty.k = "Address"           -> SerFixed(v, AddressDigits)
      [] ty.k = "B256"              -> SerFixed(v, B256Digits)
      [] ty.k = "Bytes"             -> SerBytes(v)
      [] ty.k = "bool"              -> JBool(v)
      [] ty.k \in {"usize", "f64"}  -> JNum(v)
      [] ty.k \in {"BlockSpec", "PreEip1898BlockSpec"} -> SerBlockSpec(v)
      [] ty.k = "U64OrUsize"        -> SerU64OrUsize(v)
      [] ty.k = "OneUsizeOrTwo"     -> SerOneUsizeOrTwo(v)
      [] ty.k = "SubscriptionType"  -> JWord(v)
      [] ty.k = "Option"            -> IF v = None THEN JNull ELSE Ser(ty.of[1], v[1])
      [] ty.k = "Vec"               -> JArr([i \in 1..Len(v) |-> Ser(ty.of[1], v[i])])
      [] ty.k = "OneOrMore"         ->
            IF v.alt = "One" THEN Ser(ty.of[1], v.val[1])
            ELSE JArr([i \in 1..Len(v.val) |-> Ser(ty.of[1], v.val[i])])
      [] ty.k = "Struct"            ->
            JObj([n \in FieldNames(ty) |-> Ser(ty.of[FieldType(ty, n)].ty, v[n])])

RECURSIVE De(_, _)
\* Deserialize for type ty from the JSON value js.
De(ty, js) ==
    CASE ty.k \in {"U256", "U64"}   -> DeQuantity(js)
      [] ty.k = "Address"           -> DeFixed(js, AddressDigits)
      [] ty.k = "B256"              -> DeFixed(js, B256Digits)
      [] ty.k = "Bytes"             -> DeBytes(js)
      [] ty.k = "bool"              -> IF js.j = "bool" THEN Good(js.v) ELSE Bad
      [] ty.k \in {"usize", "f64"}  -> IF js.j = "num" THEN Good(js.v) ELSE Bad
      [] ty.k \in {"BlockSpec", "PreEip1898BlockSpec"} -> DeBlockSpec(js)
      [] ty.k = "U64OrUsize"        -> DeU64OrUsize(js)
      [] ty.k = "OneUsizeOrTwo"     -> DeOneUsizeOrTwo(js)
      [] ty.k = "SubscriptionType"  ->
            IF js.j = "word" THEN (IF js.v \in SubscriptionTypes THEN Good(js.v) ELSE Bad)
            ELSE Bad
      [] ty.k = "Option"            ->
            IF js.j = "null" THEN Good(None)
            ELSE IF De(ty.of[1], js).ok THEN Good(Some(De(ty.of[1], js).val)) ELSE Bad
      [] ty.k = "Vec"               ->
            IF js.j # "arr" THEN Bad
            ELSE IF \E i \in 1..Len(js.v) : ~De(ty.of[1], js.v[i]).ok THEN Bad
            ELSE Good([i \in 1..Len(js.v) |-> De(ty.of[1], js.v[i]).val])
      [] ty.k = "OneOrMore"         ->
            IF js.j = "arr"
            THEN IF \E i \in 1..Len(js.v) : ~De(ty.of[1], js.v[i]).ok THEN Bad
                 ELSE Good(ManyOf([i \in 1..Len(js.v) |-> De(ty.of[1], js.v[i]).val]))
            ELSE IF De(ty.of[1], js).ok THEN Good(OneOf(De(ty.of[1], js).val)) ELSE Bad
      [] ty.k = "Struct"            ->
            IF js.j # "obj" THEN Bad
            ELSE IF DOMAIN js.v # FieldNames(ty) THEN Bad
            ELSE IF \E n \in FieldNames(ty) : ~De(ty.of[FieldType(ty, n)].ty, js.v[n]).ok
            THEN Bad
            ELSE Good([n \in FieldNames(ty) |-> De(ty.of[FieldType(ty, n)].ty, js.v[n]).val])

\* edr_eth::remote::filter::LogFilterOptions
LogFilterOptions ==
    Struct(<< Field("fromBlock", Option(T("BlockSpec"))),
              Field("toBlock", Option(T("BlockSpec"))),
              Field("blockHash", Option(T("B256"))),
              Field("address", Option(OneOrMore(T("Address")))),
              Field("topics", Option(Vec(Option(OneOrMore(T("B256")))))) >>)

\* edr_eth::remote::eth::CallRequest
CallRequest ==
    Struct(<< Field("from", Option(T("Address"))),
              Field("to", Option(T("Address"))),
              Field("gas", Option(T("U64"))),
              Field("gasPrice", Option(T("U256"))),
              Field("maxFeePerGas", Option(T("U256"))),
              Field("maxPriorityFeePerGas", Option(T("U256"))),
              Field("value", Option(T("U256"))),
              Field("data", Option(T("Bytes"))),
              Field("accessList", Option(Vec(T("Address")))),
              Field("type", Option(T("U64"))) >>)

\* edr_eth::transaction::EthTransactionRequest
EthTransactionRequest ==
    Struct(<< Field("from", T("Address")),
              Field("to", Option(T("Address"))),
              Field("gas", Option(T("U64"))),
              Field("gasPrice", Option(T("U256"))),
              Field("maxFeePerGas", Option(T("U256"))),
              Field("value", Option(T("U256"))),
              Field("data", Option(T("Bytes"))),
              Field("nonce", Option(T("U64"))),
              Field("chainId", Option(T("U64"))),
              Field("accessList", Option(Vec(T("Address")))),
              Field("maxPriorityFeePerGas", Option(T("U256"))),
              Field("type", Option(T("U64"))) >>)

\* StateOverrideOptions, the third parameter of eth_call: a map from
\* addresses to overrides; the tests only ever pass None, and only the empty
\* map is represented.
StateOverrideOptions == Struct(<< >>)

\* No default: an omitted block reference stays None.
NoBlockSpecDefault == None

\* The estimate-gas default, were it the one of the other queries.
EstimateGasDefaultLatest == Some(latest)

\* The default of an omitted block reference, as the tests expect it:
\* test_serde_eth_get_balance, _get_code, _get_transaction_count,
\* _get_storage_at and _call expect BlockSpec::latest().
BlockSpecDefault == Some(latest)

\* test_serde_eth_estimate_gas (lines 82-85) expects BlockSpec::pending().
EstimateGasDefault == Some(pending)

\* A positional parameter: required, or a trailing optional one with what an
\* omitted value deserializes to.
Req(ty) == [ty |-> ty, optional |-> FALSE, default |-> None]
Opt(ty, default) == [ty |-> Option(ty), optional |-> TRUE, default |-> default]

Variant(name, method, params) == [name |-> name, method |-> method, params |-> params]

\* The variants without parameters (`()`): params is the empty array.
UnitVariants ==
    { Variant("Accounts", "eth_accounts", << >>),
      Variant("BlockNumber", "eth_blockNumber", << >>),
      Variant("ChainId", "eth_chainId", << >>),
      Variant("Coinbase", "eth_coinbase", << >>),
      Variant("GasPrice", "eth_gasPrice", << >>),
      Variant("Mining", "eth_mining", << >>),
      Variant("NewBlockFilter", "eth_newBlockFilter", << >>),
      Variant("NewPendingTransactionFilter", "eth_newPendingTransactionFilter", << >>),
      Variant("PendingTransactions", "eth_pendingTransactions", << >>),
      Variant("Syncing", "eth_syncing", << >>),
      Variant("Web3ClientVersion", "web3_clientVersion", << >>),
      Variant("EvmSnapshot", "evm_snapshot", << >>),
      Variant("NetListening", "net_listening", << >>),
      Variant("NetPeerCount", "net_peerCount", << >>) }

\* The variants of MethodInvocation the tests construct, with their
\* positional parameters.
Variants ==
    UnitVariants \cup
    { Variant("Call", "eth_call",
              << Req(CallRequest), Opt(T("BlockSpec"), BlockSpecDefault),
                 Opt(StateOverrideOptions, None) >>),
      Variant("EstimateGas", "eth_estimateGas",
              << Req(CallRequest), Opt(T("BlockSpec"), EstimateGasDefault) >>),
      Variant("FeeHistory", "eth_feeHistory",
              << Req(T("U256")), Req(T("BlockSpec")), Opt(Vec(T("f64")), None) >>),
      Variant("GetBalance", "eth_getBalance",
              << Req(T("Address")), Opt(T("BlockSpec"), BlockSpecDefault) >>),
      Variant("GetBlockByNumber", "eth_getBlockByNumber",
              << Req(T("PreEip1898BlockSpec")), Req(T("bool")) >>),
      Variant("GetBlockByHash", "eth_getBlockByHash",
              << Req(T("B256")), Req(T("bool")) >>),
      Variant("GetBlockTransactionCountByHash", "eth_getBlockTransactionCountByHash",
              << Req(T("B256")) >>),
      Variant("GetBlockTransactionCountByNumber", "eth_getBlockTransactionCountByNumber",
              << Req(T("PreEip1898BlockSpec")) >>),
      Variant("GetCode", "eth_getCode",
              << Req(T("Address")), Opt(T("BlockSpec"), BlockSpecDefault) >>),
      Variant("GetFilterChanges", "eth_getFilterChanges", << Req(T("U256")) >>),
      Variant("GetFilterLogs", "eth_getFilterLogs", << Req(T("U256")) >>),
      Variant("GetLogs", "eth_getLogs", << Req(LogFilterOptions) >>),
      Variant("GetStorageAt", "eth_getStorageAt",
              << Req(T("Address")), Req(T("U256")), Opt(T("BlockSpec"), BlockSpecDefault) >>),
      Variant("GetTransactionByBlockHashAndIndex", "eth_getTransactionByBlockHashAndIndex",
              << Req(T("B256")), Req(T("U256")) >>),
      Variant("GetTransactionByBlockNumberAndIndex", "eth_getTransactionByBlockNumberAndIndex",
              << Req(T("PreEip1898BlockSpec")), Req(T("U256")) >>),
      Variant("GetTransactionByHash", "eth_getTransactionByHash", << Req(T("B256")) >>),
      Variant("GetTransactionCount", "eth_getTransactionCount",
              << Req(T("Address")), Opt(T("BlockSpec"), BlockSpecDefault) >>),
      Variant("GetTransactionReceipt", "eth_getTransactionReceipt", << Req(T("B256")) >>),
      Variant("NewFilter", "eth_newFilter", << Req(LogFilterOptions) >>),
      Variant("SendRawTransaction", "eth_sendRawTransaction", << Req(T("Bytes")) >>),
      Variant("SendTransaction", "eth_sendTransaction", << Req(EthTransactionRequest) >>),
      Variant("Sign", "eth_sign", << Req(T("Bytes")), Req(T("Address")) >>),
      Variant("Subscribe", "eth_subscribe",
              << Req(T("SubscriptionType")), Opt(LogFilterOptions, None) >>),
      Variant("UninstallFilter", "eth_uninstallFilter", << Req(T("U256")) >>),
      Variant("Unsubscribe", "eth_unsubscribe", << Req(T("U256")) >>),
      Variant("EvmIncreaseTime", "evm_increaseTime", << Req(T("U64OrUsize")) >>),
      Variant("EvmMine", "evm_mine", << Opt(T("U64OrUsize"), None) >>),
      Variant("EvmSetNextBlockTimestamp", "evm_setNextBlockTimestamp",
              << Req(T("U64OrUsize")) >>),
      Variant("Web3Sha3", "web3_sha3", << Req(T("Bytes")) >>),
      Variant("EvmSetAutomine", "evm_setAutomine", << Req(T("bool")) >>),
      Variant("EvmSetIntervalMining", "evm_setIntervalMining",
              << Req(T("OneUsizeOrTwo")) >>) }

VariantNamed(name) == CHOOSE vr \in Variants : vr.name = name

\* Method names without the alias: only the canonical name is known.
CanonicalName(method) == method

\* Method-name aliases: "personal_sign" is "eth_sign".
CanonicalMethod(method) ==
    IF method = "personal_sign" THEN "eth_sign" ELSE method

\* A MethodInvocation value: the variant's name and its fields.
Invocation(name, args) == [invocation |-> name, params |-> args]

\* The number of parameters written: trailing optional ones that are None
\* are skipped.
RECURSIVE Written(_, _)
Written(params, args) ==
    IF Len(args) = 0 THEN 0
    ELSE IF params[Len(args)].optional /\ args[Len(args)] = None
    THEN Written(params, SubSeq(args, 1, Len(args) - 1))
    ELSE Len(args)

\* serde_json::json!(call): {"method": .., "params": [..]}
Serialize(inv) ==
    [method |-> VariantNamed(inv.invocation).method,
     params |-> [i \in 1..Written(VariantNamed(inv.invocation).params, inv.params) |->
                    Ser(VariantNamed(inv.invocation).params[i].ty, inv.params[i])]]

\* The number of leading parameters that must be present.
Required(params) == Cardinality({ i \in 1..Len(params) : ~params[i].optional })

\* One argument: deserialized from its position, or the default of an
\* omitted trailing optional parameter.
DeArg(param, params, i) ==
    IF i <= Len(params) THEN De(param.ty, params[i]) ELSE Good(param.default)

\* The arguments of a variant from a params array.
DeArgs(vr, params) ==
    IF Len(params) < Required(vr.params) \/ Len(params) > Len(vr.params) THEN Bad
    ELSE IF \E i \in 1..Len(vr.params) : ~DeArg(vr.params[i], params, i).ok THEN Bad
    ELSE Good(Invocation(vr.name,
                         [i \in 1..Len(vr.params) |-> DeArg(vr.params[i], params, i).val]))

\* serde_json::from_str::<MethodInvocation>
Deserialize(json) ==
    IF \A vr \in Variants : vr.method # CanonicalMethod(json.method) THEN Bad
    ELSE DeArgs(CHOOSE vr \in Variants : vr.method = CanonicalMethod(json.method),
                json.params)

\* help_test_method_invocation_serde's inputs: the invocations the tests
\* build, and their neighbours.
whatever == << 119, 104, 97, 116, 101, 118, 101, 114 >>

CallRequestSamples ==
    { [from |-> f, to |-> Some(2), gas |-> Some(3), gasPrice |-> Some(4),
       maxFeePerGas |-> None, maxPriorityFeePerGas |-> None,
       value |-> Some(123568919), data |-> d, accessList |-> None, type |-> None] :
        f \in {None, Some(1)}, d \in {None, Some(whatever)} }

EthTransactionRequestSample ==
    [from |-> 1, to |-> Some(2), gas |-> Some(3), gasPrice |-> Some(4),
     maxFeePerGas |-> None, value |-> Some(123568919), data |-> Some(whatever),
     nonce |-> None, chainId |-> None, accessList |-> None,
     maxPriorityFeePerGas |-> None, type |-> None]

LogFilterSamples ==
    { [fromBlock |-> Some(BlockNumber(100)), toBlock |-> Some(BlockNumber(102)),
       blockHash |-> None, address |-> Some(OneOf(1)), topics |-> None],
      [fromBlock |-> Some(BlockTag("safe")), toBlock |-> Some(latest),
       blockHash |-> None, address |-> Some(OneOf(1)),
       topics |-> Some(<< Some(OneOf(1)) >>)],
      [fromBlock |-> None, toBlock |-> None,
       blockHash |-> Some(1), address |-> Some(OneOf(1)),
       topics |-> Some(<< Some(OneOf(1)) >>)],
      [fromBlock |-> Some(BlockNumber(1000)), toBlock |-> Some(latest),
       blockHash |-> None, address |-> Some(ManyOf(<< 1, 1 >>)),
       topics |-> Some(<< None, Some(ManyOf(<< 1, 3 >>)) >>)] }

BlockSpecSamples == {None, Some(latest), Some(pending), Some(BlockNumber(100))}

\* The samples, grouped by the shape of their fields.
Samples ==
    << { Invocation(vr.name, << >>) : vr \in UnitVariants },
       { Invocation(n, << 1, b >>) :
            n \in {"GetBalance", "GetCode", "GetTransactionCount"}, b \in BlockSpecSamples },
       { Invocation("GetStorageAt", << 1, 0, b >>) : b \in BlockSpecSamples },
       { Invocation("Call", << tx, b, None >>) :
            tx \in CallRequestSamples, b \in BlockSpecSamples },
       { Invocation("EstimateGas", << tx, b >>) :
            tx \in CallRequestSamples, b \in BlockSpecSamples },
       { Invocation("FeeHistory", << 3, BlockNumber(100), p >>) :
            p \in {None, Some(<< 5, 100, 800, 900, 995 >>)} },
       { Invocation("GetBlockByNumber", << b, full >>) :
            b \in {BlockNumber(100), latest}, full \in BOOLEAN },
       { Invocation("GetBlockByHash", << 1, full >>) : full \in BOOLEAN },
       { Invocation(n, << 1 >>) :
            n \in {"GetBlockTransactionCountByHash", "GetTransactionByHash",
                   "GetTransactionReceipt"} },
       { Invocation("GetBlockTransactionCountByNumber", << BlockNumber(100) >>) },
       { Invocation(n, << 100 >>) :
            n \in {"GetFilterChanges", "GetFilterLogs", "UninstallFilter", "Unsubscribe"} },
       { Invocation(n, << f >>) : n \in {"GetLogs", "NewFilter"}, f \in LogFilterSamples },
       { Invocation("GetTransactionByBlockHashAndIndex", << 1, 1 >>) },
       { Invocation("GetTransactionByBlockNumberAndIndex", << BlockNumber(100), 1 >>) },
       { Invocation(n, << whatever >>) : n \in {"SendRawTransaction", "Web3Sha3"} },
       { Invocation("SendTransaction", << EthTransactionRequestSample >>) },
       { Invocation("Sign", << b, a >>) : b \in {<< >>, whatever}, a \in {1, 2} },
       { Invocation("Subscribe", << st, f >>) :
            st \in SubscriptionTypes,
            f \in {None} \cup { Some(x) : x \in LogFilterSamples } },
       { Invocation(n, << x >>) :
            n \in {"EvmIncreaseTime", "EvmSetNextBlockTimestamp"},
            x \in {U64(12345), Usize(12345)} },
       { Invocation("EvmMine", << x >>) :
            x \in {None, Some(U64(12345)), Some(Usize(12345))} },
       { Invocation("EvmSetAutomine", << b >>) : b \in BOOLEAN },
       { Invocation("EvmSetIntervalMining", << x >>) :
            x \in {One(1000), Two(1000, 5000)} } >>

(***************************************************************************)
(* Part III.a  The round trip of the test helpers                          *)
(*   help_test_method_invocation_serde(_with_expected) and                 *)
(*   test_personal_sign: serialize, (replace the method name by its        *)
(*   alias,) deserialize.                                                  *)
(***************************************************************************)

NoJson == [method |-> "none", params |-> << >>]

SerdeInit ==
    /\ serdePc = "start"
    /\ \E g \in 1..Len(Samples) : call \in Samples[g]
    /\ serialized = NoJson
    /\ call_deserialized = Bad

SerdeParked ==
    /\ serdePc = "parked"
    /\ call = Invocation("Accounts", << >>)
    /\ serialized = NoJson
    /\ call_deserialized = Bad

\* let serialized = serde_json::json!(call).to_string()
serialize ==
    /\ serdePc = "start"
    /\ serialized' = Serialize(call)
    /\ serdePc' = "serialized"
    /\ UNCHANGED << call, call_deserialized >>
    /\ UNCHANGED << providerVars, rlpVars, hashVars, signVars >>

\* .replace("eth_sign", "personal_sign")
replace_alias ==
    /\ serdePc = "serialized"
    /\ serialized.method = "eth_sign"
    /\ serialized' = [serialized EXCEPT !.method = "personal_sign"]
    /\ UNCHANGED << serdePc, call, call_deserialized >>
    /\ UNCHANGED << providerVars, rlpVars, hashVars, signVars >>

\* serde_json::from_str(&serialized)
deserialize ==
    /\ serdePc = "serialized"
    /\ call_deserialized' = Deserialize(serialized)
    /\ serdePc' = "deserialized"
    /\ UNCHANGED << call, serialized >>
    /\ UNCHANGED << providerVars, rlpVars, hashVars, signVars >>

SerdeNext ==
    \/ serialize
    \/ replace_alias
    \/ deserialize

(***************************************************************************)
(* Part III.b  The round trip of a value (specification SpecValue)         *)
(***************************************************************************)

\* The longest Many(..) of the samples.
MaxMany == 3

\* Addresses and hashes the values are made of.
Elements == {1, 2, 255}

RECURSIVE ElementSeqs(_)
ElementSeqs(n) ==
    IF n = 0 THEN { << >> }
    ELSE ElementSeqs(n - 1)
         \cup { Append(s, e) : s \in { q \in ElementSeqs(n - 1) : Len(q) = n - 1 },
                               e \in Elements }

\* OneOrMore<Address> and OneOrMore<B256> values: One(v), and Many(vs) of
\* every length up to MaxMany, duplicates included.
OneOrMoreSamples ==
    { [ty |-> OneOrMore(T(k)), value |-> x] :
        k \in {"Address", "B256"},
        x \in { OneOf(e) : e \in Elements }
              \cup { ManyOf(vs) : vs \in ElementSeqs(MaxMany) } }

ValueInit ==
    /\ serdePc = "start"
    /\ call \in OneOrMoreSamples
    /\ serialized = NoJson
    /\ call_deserialized = Bad

\* serde_json::from_str with every value normalized to a sequence: a bare
\* value is read as a sequence of one.
DeserializeNormalized(ty, js) ==
    IF ~De(ty, js).ok THEN Bad
    ELSE IF De(ty, js).val.alt = "One" THEN Good(ManyOf(De(ty, js).val.val))
    ELSE De(ty, js)

\* serde_json::from_str::<T>(&serialized) of help_test_serde_value
DeserializeValue(ty, js) == De(ty, js)

\* let serialized = serde_json::json!(value).to_string()
serialize_value ==
    /\ serdePc = "start"
    /\ serialized' = Ser(call.ty, call.value)
    /\ serdePc' = "serialized"
    /\ UNCHANGED << call, call_deserialized >>
    /\ UNCHANGED << providerVars, rlpVars, hashVars, signVars >>

\* let deserialized: T = serde_json::from_str(&serialized)
deserialize_value ==
    /\ serdePc = "serialized"
    /\ call_deserialized' = DeserializeValue(call.ty, serialized)
    /\ serdePc' = "deserialized"
    /\ UNCHANGED << call, serialized >>
    /\ UNCHANGED << providerVars, rlpVars, hashVars, signVars >>

ValueNext ==
    \/ serialize_value
    \/ deserialize_value

ProviderParked ==
    /\ pc = [r \in Requests |-> "parked"]
    /\ text = [r \in Requests |-> NoText]
    /\ task = [r \in Requests |-> "none"]
    /\ logResult = [r \in Requests |-> "none"]
    /\ answer = [r \in Requests |-> NoResult]
    /\ response = [r \in Requests |-> NoResult]
    /\ solidity_trace = [r \in Requests |-> None]
    /\ traces = [r \in Requests |-> << >>]
    /\ ret = [r \in Requests |-> NotReturned]
    /\ logCalls = [r \in Requests |-> 0]
    /\ engineCalls = [r \in Requests |-> 0]

(***************************************************************************)
(* Properties of Provider::handle_request (specification Spec)             *)
(***************************************************************************)

\* The request went through the engine and its Response was returned.
Answered(r) ==
    /\ pc[r] = "done"
    /\ ParsesAsInvocation(text[r])
    /\ ret[r].tag = "Ok"

\* C1: the top-level trace of a Response.  A request answered by the engine
\* with TransactionFailed and a reason other than OutOfGas carries exactly
\* the failure's solidity_trace; with TransactionFailed(OutOfGas), with
\* success and with any other error kind it carries none.
C1_TracePolicy ==
    \A r \in Requests :
        Answered(r) =>
            ret[r].solidity_trace =
                IF answer[r].kind = "TransactionFailed" /\ answer[r].reason # "OutOfGas"
                THEN Some(answer[r].solidity_trace)
                ELSE None

\* Two answered requests: a revert that carries its trace, and an
\* out-of-gas failure that carries none.
C1_Witness ==
    \E r1, r2 \in Requests :
        /\ Answered(r1) /\ Answered(r2)
        /\ answer[r1].kind = "TransactionFailed" /\ answer[r1].reason = "Revert"
        /\ ret[r1].solidity_trace = Some("tA")
        /\ answer[r2].kind = "TransactionFailed" /\ answer[r2].reason = "OutOfGas"
        /\ answer[r2].solidity_trace = "tB"
        /\ ret[r2].solidity_trace = None

\* The parse failed and the classifier yielded a (method, error) pair.
Classified(r) ==
    /\ text[r] \in Texts
    /\ ~ParsesAsInvocation(text[r])
    /\ provider_error(InvalidRequestReason(text[r])) # None

\* C9: a failure of the diagnostic logging step never aborts the response.
\* Whenever the classifier yields a pair, handle_request returns the
\* classified error response, whatever the logging call did (returned Ok,
\* returned Err, or panicked on the worker pool).
C9_LoggingNeverAborts ==
    \A r \in Requests :
        (pc[r] = "done" /\ Classified(r)) =>
            ret[r] = OkResponse(ParseErrorBody(text[r]), None, << >>)

\* The request failed in one of the categories that must become a JSON-RPC
\* error response: its text did not parse, or the engine returned an error.
FailedInDomain(r) ==
    /\ pc[r] = "done"
    /\ text[r] \in Texts
    /\ \/ ~ParsesAsInvocation(text[r])
       \/ (answer[r].kind # "none" /\ ~answer[r].ok)

\* C10: every parse error, parameter-validation error and engine-reported
\* error is returned as Ok(Response) whose json is a JSON-RPC error body;
\* handle_request returns a host-level error for none of them.
C10_ErrorsBecomeResponses ==
    \A r \in Requests :
        FailedInDomain(r) => (ret[r].tag = "Ok" /\ ret[r].json.body = "error")

\* The engine task of the request ran and produced no answer: it panicked.
EnginePanicked(r) ==
    /\ engineCalls[r] > 0
    /\ answer[r].kind = "none"
    /\ task[r] \in {"engine_panicked", "joined"}

\* What a finished request returns, from its own text, its own logging
\* outcome and its own engine answer alone.
ExpectedReturn(r) ==
    IF ~ParsesAsInvocation(text[r])
    THEN IF logResult[r] = "Panic" THEN HostError("GenericFailure")
         ELSE OkResponse(ParseErrorBody(text[r]), None, << >>)
    ELSE IF answer[r].kind = "none" THEN HostError("GenericFailure")
    ELSE OkResponse(ResponseData(answer[r]), TakeSolidityTrace(answer[r]),
                    TakeTraces(answer[r]))

\* C11: when the worker task running the engine call panics, that request
\* returns the host-level error GenericFailure, which is no JSON-RPC
\* response; the engine call is made once and never again; and every other
\* request returns what its own text and engine answer determine.
C11_EngineFailureIsolated ==
    \A r \in Requests :
        /\ engineCalls[r] <= 1
        /\ (pc[r] = "done" /\ EnginePanicked(r)) =>
              /\ ret[r] = HostError("GenericFailure")
              /\ ret[r].tag # "Ok"
        /\ (pc[r] = "done" /\ \E q \in Requests \ {r} : EnginePanicked(q)) =>
              ret[r] = ExpectedReturn(r)

\* One request's engine task panicked and it got the host-level error,
\* while the other got the engine's answer as a JSON-RPC response.
C11_Witness ==
    \E r, q \in Requests :
        /\ pc[r] = "done" /\ EnginePanicked(r)
        /\ ret[r].tag = "Err"
        /\ pc[q] = "done" /\ answer[q].kind = "TransactionFailed"
        /\ ret[q].tag = "Ok" /\ ret[q].json.body = "error"

\* The tasks of the engine call.
EngineTasks == {"engine_queued", "engine_finished", "engine_panicked", "engine_hung"}

\* C16: a parse failure is terminal.  For a request whose text does not
\* deserialize into a MethodInvocation the engine is never invoked and no
\* engine task is ever queued, the request never enters the engine, trace or
\* assembly phases, and the Response it returns has no top-level trace and
\* an empty trace sequence.
C16_ParseFailureIsTerminal ==
    \A r \in Requests :
        (pc[r] # "idle" /\ ~ParsesAsInvocation(text[r])) =>
            /\ engineCalls[r] = 0
            /\ task[r] \notin EngineTasks
            /\ pc[r] \in {"await_log", "done"}
            /\ answer[r].kind = "none"
            /\ (pc[r] = "done" /\ ret[r].tag = "Ok") =>
                  /\ ret[r].solidity_trace = None
                  /\ ret[r].traces = << >>
                  /\ ret[r].json = ParseErrorBody(text[r])

\* A request with invalid parameters got its error response after logging,
\* while the other request's engine call returned traces.
C16_Witness ==
    \E r, q \in Requests :
        /\ pc[r] = "done" /\ ~ParsesAsInvocation(text[r])
        /\ logCalls[r] = 1
        /\ ret[r].tag = "Ok" /\ ret[r].traces = << >>
        /\ pc[q] = "done" /\ ret[q].tag = "Ok" /\ ret[q].traces # << >>

\* Where log_failed_deserialization has been called and with what outcome.
LogCallsJustified ==
    \A r \in Requests :
        /\ logCalls[r] <= 1
        /\ logCalls[r] = 1 => (pc[r] # "idle" /\ Classified(r))
        /\ (pc[r] # "idle" /\ ~text[r].json) => logCalls[r] = 0
        /\ (pc[r] # "idle" /\ text[r].shape = "unknown_method") => logCalls[r] = 0
        /\ (pc[r] # "idle" /\ ParsesAsInvocation(text[r])) => logCalls[r] = 0
        /\ (pc[r] = "done" /\ Classified(r)) =>
              /\ logCalls[r] = 1
              /\ task[r] = "joined"
              /\ ret[r].tag = "Ok" => logResult[r] \in {"Ok", "Err"}

\* C17: log_failed_deserialization is called only for a request whose parse
\* failed with a (method name, structured error) pair from the classifier,
\* at most once, and the call is over when the request's error response is
\* returned: nothing is logged for it afterwards.  It is never called for
\* unparsable JSON, for an unknown method or for a request that parsed.
C17_LogOnlyClassifiedFailures ==
    /\ []LogCallsJustified
    /\ [][\A r \in Requests : pc[r] = "done" => logCalls'[r] = logCalls[r]]_vars

\* A request with invalid parameters was logged (the log call failed) and
\* answered, while requests with garbage text got no log call.
C17_Witness ==
    \E r, q \in Requests :
        /\ pc[r] = "done" /\ Classified(r)
        /\ logCalls[r] = 1 /\ logResult[r] = "Err"
        /\ ret[r].tag = "Ok" /\ ret[r].json.code = InvalidParamsCode
        /\ pc[q] = "done" /\ ~text[q].json /\ logCalls[q] = 0

\* C18: the trace sequence of the Response is that of the engine's answer.
\* For a successful answer it is the answer's trace sequence; for
\* TransactionFailed it is the failure's trace sequence whatever the reason,
\* out of gas included, where the top-level trace is None; for any other
\* error it is empty.  Same traces, same order, same number.
C18_TracesFromEngineAnswer ==
    \A r \in Requests :
        (pc[r] = "done" /\ ret[r].tag = "Ok" /\ ParsesAsInvocation(text[r])) =>
            /\ answer[r].kind = "Ok" => ret[r].traces = answer[r].traces
            /\ answer[r].kind = "TransactionFailed" =>
                  /\ ret[r].traces = answer[r].traces
                  /\ answer[r].reason = "OutOfGas" => ret[r].solidity_trace = None
            /\ answer[r].kind \in OtherErrorKinds => ret[r].traces = << >>
            /\ answer[r].kind \in {"Ok", "TransactionFailed"} \cup OtherErrorKinds

\* A transaction that ran out of gas: its two traces come back in order,
\* without a top-level trace; the other request failed otherwise and has
\* no traces.
C18_Witness ==
    \E r, q \in Requests :
        /\ pc[r] = "done" /\ ret[r].tag = "Ok"
        /\ answer[r].kind = "TransactionFailed" /\ answer[r].reason = "OutOfGas"
        /\ ret[r].traces = << "tB", "tA" >>
        /\ ret[r].solidity_trace = None
        /\ pc[q] = "done" /\ ret[q].tag = "Ok"
        /\ answer[q].kind = "InvalidInput" /\ ret[q].traces = << >>

\* The steps a request whose text parsed can take, phase to phase.
PhaseSteps ==
    { << "idle", "await_engine" >>,
      << "await_engine", "take_solidity_trace" >>,
      << "await_engine", "done" >>,
      << "take_solidity_trace", "take_traces" >>,
      << "take_traces", "assemble" >>,
      << "assemble", "done" >> }

\* The phases after the engine call has been joined with an answer.
AfterEngine == {"take_solidity_trace", "take_traces", "assemble"}

\* Where a request that parsed stands, phase by phase.
PhasesInOrder ==
    \A r \in Requests :
        (pc[r] # "idle" /\ ParsesAsInvocation(text[r])) =>
            /\ engineCalls[r] <= 1
            /\ logCalls[r] = 0
            /\ pc[r] \in AfterEngine =>
                  /\ engineCalls[r] = 1
                  /\ task[r] = "joined"
                  /\ answer[r] \in EngineResults
            /\ pc[r] \in {"take_solidity_trace", "take_traces"} =>
                  ret[r] = NotReturned
            /\ pc[r] = "take_solidity_trace" =>
                  /\ response[r] = answer[r]
                  /\ solidity_trace[r] = None /\ traces[r] = << >>
            /\ pc[r] = "take_traces" =>
                  /\ solidity_trace[r] = TakeSolidityTrace(answer[r])
                  /\ traces[r] = << >>
            /\ pc[r] = "assemble" =>
                  /\ ret[r] = NotReturned
                  /\ solidity_trace[r] = TakeSolidityTrace(answer[r])
                  /\ traces[r] = TakeTraces(answer[r])
            /\ pc[r] = "done" =>
                  /\ engineCalls[r] = 1
                  /\ task[r] = "joined"
                  /\ \/ /\ EnginePanicked(r)
                        /\ ret[r] = HostError("GenericFailure")
                     \/ /\ answer[r] \in EngineResults
                        /\ ret[r].tag = "Ok"
                        /\ ret[r].json = ResponseData(answer[r])
                        /\ ret[r].solidity_trace = solidity_trace[r]
                        /\ ret[r].traces = traces[r]

\* C20: per-request phase ordering.  A request whose text parses has the
\* engine invoked once; its traces are extracted only after that call has
\* returned and been joined, the top-level trace first and the trace
\* sequence second; its body is assembled only after both, from the
\* engine's success value or error; and its phases follow one another with
\* none skipped and none repeated.
C20_PhasesInOrder ==
    /\ []PhasesInOrder
    /\ [][\A r \in Requests :
            (pc'[r] # pc[r] /\ ParsesAsInvocation(text'[r])) =>
                /\ << pc[r], pc'[r] >> \in PhaseSteps
                /\ engineCalls'[r] = engineCalls[r]]_vars
    /\ [][\A r \in Requests :
            engineCalls'[r] # engineCalls[r] =>
                /\ pc[r] = "await_engine" /\ pc'[r] = pc[r]
                /\ engineCalls[r] = 0]_vars

\* A request went through every phase: its transaction reverted and its
\* response carries the error body, the top-level trace and two traces.
C20_Witness ==
    \E r \in Requests :
        /\ pc[r] = "done" /\ ParsesAsInvocation(text[r])
        /\ engineCalls[r] = 1
        /\ answer[r].kind = "TransactionFailed" /\ answer[r].reason = "Revert"
        /\ ret[r].tag = "Ok" /\ ret[r].json.body = "error"
        /\ ret[r].solidity_trace # None
        /\ Len(ret[r].traces) = 2

\* The caller of r has one result: a Response or an infrastructure failure.
OneOutcome(r) ==
    \/ /\ ret[r].tag = "Ok"  /\ ret[r].json.body # "none" /\ ret[r].status = "none"
    \/ /\ ret[r].tag = "Err" /\ ret[r].json = NoBody /\ ret[r].status = "GenericFailure"

\* C21 (SpecFair): every request completes with exactly one outcome.  With
\* a fair worker pool and fair resumption of awaits, every accepted request
\* whose engine call returns (or panics) reaches its terminal state; a
\* request in its terminal state has one result, a Response or a host-level
\* failure; a request not yet there has none; and a result, once given, is
\* never replaced.
C21_ExactlyOneOutcome ==
    /\ \A r \in Requests :
          (pc[r] # "idle") ~> (pc[r] = "done" \/ task[r] = "engine_hung")
    /\ [](\A r \in Requests :
            /\ pc[r] = "done" => OneOutcome(r)
            /\ pc[r] # "done" => ret[r] = NotReturned)
    /\ [][\A r \in Requests :
            pc[r] = "done" => (pc'[r] = "done" /\ ret'[r] = ret[r])]_vars

\* Both kinds of outcome: one request has its Response, the other got the
\* host-level failure of a panicked engine task.
C21_Witness ==
    \E r, q \in Requests :
        /\ pc[r] = "done" /\ ret[r].tag = "Ok" /\ ret[r].json.body = "result"
        /\ pc[q] = "done" /\ ret[q].tag = "Err" /\ task[q] = "joined"
        /\ engineCalls[q] = 1

\* C23: the error response of a parse failure.  It is an error body with
\* the classifier's code and message for the request text; its data field
\* holds the request as a JSON value when the text is valid JSON, and is
\* absent when it is not.
C23_ParseErrorCarriesRequest ==
    \A r \in Requests :
        (pc[r] = "done" /\ ~ParsesAsInvocation(text[r]) /\ ret[r].tag = "Ok") =>
            /\ ret[r].json.body = "error"
            /\ ret[r].json.code = error_code(InvalidRequestReason(text[r]))
            /\ ret[r].json.message = InvalidRequestReason(text[r])
            /\ text[r].json => ret[r].json.data = Some(text[r])
            /\ ~text[r].json => ret[r].json.data = None

\* Two error responses: one for text that is not JSON, a parse error without
\* data, and one for a known method with bad parameters, invalid params
\* with the request as data.
C23_Witness ==
    \E r, q \in Requests :
        /\ pc[r] = "done" /\ ret[r].tag = "Ok" /\ ~text[r].json
        /\ ret[r].json.code = ParseErrorCode /\ ret[r].json.data = None
        /\ pc[q] = "done" /\ ret[q].tag = "Ok" /\ text[q].shape = "bad_params"
        /\ ret[q].json.code = InvalidParamsCode
        /\ ret[q].json.data = Some(text[q])

\* C12: a hung engine call hangs only its own response.  Whatever the other
\* requests' engine calls do, hang included, a request whose engine call has
\* returned gets its Response; and a request that has not started can
\* always be accepted.
C12_HangIsLocal ==
    /\ \A r \in Requests :
          (task[r] = "engine_finished") ~> (pc[r] = "done" /\ ret[r].tag = "Ok")
    /\ [](\A r \in Requests :
            pc[r] = "idle" => ENABLED (\E t \in Texts : handle_request(r, t)))

\* One request's engine call hangs while the other has its Response.
C12_Witness ==
    \E r, q \in Requests :
        /\ task[q] = "engine_hung" /\ pc[q] = "await_engine"
        /\ Answered(r) /\ answer[r].kind = "Ok"

(***************************************************************************)
(* Properties of the envelope                                              *)
(***************************************************************************)

\* The envelope without its cache.
ProtocolFields(e) == [e EXCEPT !.hash = None]

\* C2 (SpecHash): hash() is an exactly-once memoization.  Every value any
\* call has returned, from any thread, is the digest of the type tag 1
\* followed by the encoding of the envelope; the slot is written at most
\* once; once the cell is complete it holds that digest.
C2_HashExactlyOnce ==
    /\ returned \subseteq { Some([keccak256 |-> << 1 >> \o Encode(ProtocolFields(self))]) }
    /\ writes <= 1
    /\ (once = "complete" =>
            self.hash = Some([keccak256 |-> << 1 >> \o Encode(ProtocolFields(self))]))

\* Three callers: two raced on the first access (both left the slow path
\* and are about to read the slot), and a call has already returned.
C2_Witness ==
    \E t1, t2 \in Threads :
        /\ t1 # t2
        /\ tpc[t1] = "read" /\ tpc[t2] = "read"
        /\ returned # {}
        /\ writes = 1

\* C19 (SpecStale): once populated, the hash is never recomputed.  The cell
\* is written at most once; once it is complete neither it nor its value
\* changes, whatever is done to the envelope, a write to a protocol field
\* included; and every hash() call returns the cell's value, the digest
\* computed on first access.
C19_HashNeverRecomputed ==
    /\ [](/\ writes <= 1
          /\ returned \subseteq { self.hash }
          /\ once = "complete" => self.hash # None)
    /\ [][once = "complete" =>
            /\ once' = "complete"
            /\ self'.hash = self.hash
            /\ writes' = writes]_vars

\* After a write to nonce, hash() has returned the value computed on first
\* access, which is not the digest of the envelope's current fields.
C19_Witness ==
    /\ once = "complete"
    /\ returned = { self.hash }
    /\ self.hash # Some(ComputeHash(self))
    /\ self.nonce = 7

\* C3 (SpecRlp): decode(encode(x)) succeeds and equals x, with nothing left
\* over, whether or not x's cache was populated before encoding; the decoded
\* envelope starts with an empty cache.
C3_RoundTrip ==
    rlpPc = "decoded" =>
        /\ rlpDecoded.ok
        /\ rlpDecoded.rest = << >>
        /\ eq(rlpTx, rlpDecoded.val)
        /\ ProtocolFields(rlpDecoded.val) = ProtocolFields(rlpTx)
        /\ rlpDecoded.val.hash = None

\* A decoded envelope with a contract call, a non-empty access list and a
\* payload longer than 55 bytes, whose original had its hash computed.
C3_Witness ==
    /\ rlpPc = "decoded"
    /\ rlpTx.hash # None
    /\ rlpTx.access_list = DummyAccessList
    /\ rlpTx.kind = Call(DummyTo)
    /\ rlpTx.input = << 128 >>
    /\ Len(rlpBytes) > 100
    /\ rlpDecoded.ok

\* C14 (SpecDecode): decode rejects bad input: a strict prefix of a valid
\* encoding, a valid encoding followed by extra bytes, and an encoding with
\* a field value out of its range all give a decode error, never an
\* envelope.
C14_DecodeRejectsBadInput ==
    rlpPc \in { AfterDecode[k] : k \in Received } => ~rlpDecoded.ok

\* What the decoder does with each kind of input: truncated input and
\* out-of-range fields are errors; a valid encoding followed by extra bytes
\* decodes to the envelope and leaves the extra bytes unread in the buffer.
DecodeOutcome ==
    /\ rlpPc \in {"decoded_truncated", "decoded_out_of_range"} => ~rlpDecoded.ok
    /\ rlpPc = "decoded_trailing" =>
           /\ rlpDecoded.ok
           /\ eq(rlpDecoded.val, rlpTx)
           /\ rlpBytes = Encode(rlpTx) \o rlpDecoded.rest
           /\ rlpDecoded.rest \in ExtraBytes

\* The outcome of == is that of comparing the protocol fields.
EqIsFieldEquality ==
    /\ eq(self, other) = (ProtocolFields(self) = ProtocolFields(other))
    /\ eq(other, self) = (ProtocolFields(self) = ProtocolFields(other))

\* C4 (SpecHash): equality depends on the eleven protocol fields only.  In
\* every combination of cache states the outcome of == is that of comparing
\* the protocol fields, and no step of any hash() call changes it.
C4_EqIgnoresCache ==
    /\ []EqIsFieldEquality
    /\ [][eq(self, other)' = eq(self, other)]_vars

\* Equal envelopes of which only one has computed its hash.
C4_Witness ==
    /\ self.hash # None
    /\ other.hash = None
    /\ eq(self, other)
    /\ self.nonce = 1


(***************************************************************************)
(* Properties of signing and recovery (specification SpecSign)             *)
(***************************************************************************)

\* The parity value recover() hands to the signature: 1 when odd.
ParityOf(tx) == IF tx.odd_y_parity THEN 1 ELSE 0

\* C13: sign-then-recover.  For every request and every valid secret key,
\* recover() on the signed envelope returns the address of the key's public
\* key, and it is the recovery from (r, s, parity as 1 or 0) over the digest
\* of the unsigned request, which the envelope's non-signature fields
\* rebuild.
C13_SignThenRecover ==
    (signPc = "signed" /\ Len(recovered) > 0) =>
        /\ RequestFrom(signed) = request
        /\ \A i \in 1..Len(recovered) :
              /\ recovered[i] = Recovered(public_key_to_address(public_key(secret_key)))
              /\ recovered[i] =
                    SignatureRecover([r |-> signed.r, s |-> signed.s, v |-> ParityOf(signed)],
                                     RequestHash(request))

\* dummy_request signed with an odd-parity signature, and recovered.
C13_Witness ==
    /\ signPc = "signed"
    /\ request = RequestFrom(DummyTx)
    /\ signed.odd_y_parity
    /\ Len(recovered) = 1
    /\ recovered[1].ok

\* The scalars a signature may hold.
ValidScalars == 1..(CurveOrder - 1)

\* No curve point has x-coordinate r and the envelope's parity, or the key
\* it recovers to is the identity.
NoValidKey(tx) ==
    \/ PointsOf(tx.r, ParityOf(tx)) = {}
    \/ RecoverKey(CHOOSE R \in PointsOf(tx.r, ParityOf(tx)) : TRUE,
                  tx.r, tx.s, Scalar(RequestHash(RequestFrom(tx)))) = 1

\* Every result of recover() is a value: the error or an address of a key.
RecoverReturns ==
    \A i \in 1..Len(recovered) :
        \/ recovered[i] = SignatureError
        \/ \E y \in Points \ {1} : recovered[i] = Recovered(public_key_to_address(y))

\* The error cases of recover().
RecoverFails ==
    \A i \in 1..Len(recovered) :
        (\/ signed.r \notin ValidScalars
         \/ signed.s \notin ValidScalars
         \/ NoValidKey(signed)) => recovered[i] = SignatureError

\* C15 (SpecSign): recover() on an envelope whose r or s is zero or out of
\* the curve's range, or whose point recovery yields no valid public key,
\* returns the SignatureError value (every call returns a value); two calls
\* on the same envelope return the same result, whether or not the hash
\* cache was populated in between; and a call leaves the envelope, its hash
\* cache included, as it was.
C15_RecoverFailsCleanly ==
    /\ [](RecoverReturns /\ RecoverFails)
    /\ [](Len(recovered) = 2 => recovered[1] = recovered[2])
    /\ [][Len(recovered') > Len(recovered) => signed' = signed]_vars

\* An envelope with a valid r and s = 0, recovered before and after its
\* hash was computed.
C15_Witness ==
    /\ signPc = "received"
    /\ signed.r \in ValidScalars
    /\ signed.s = 0
    /\ signed.hash # None
    /\ Len(recovered) = 2
    /\ recovered[1] = SignatureError

\* An envelope with valid r and s for which no point exists, recovered.
NoPointRecovered ==
    /\ signPc = "received"
    /\ signed.r \in ValidScalars
    /\ signed.s \in ValidScalars
    /\ PointsOf(signed.r, ParityOf(signed)) = {}
    /\ Len(recovered) = 1

\* An envelope that was not signed but recovers to some address.
ForgedRecovered ==
    /\ signPc = "received"
    /\ Len(recovered) = 1
    /\ recovered[1].ok

(***************************************************************************)
(* Properties of the MethodInvocation round trip (specification SpecSerde) *)
(***************************************************************************)

\* The variants whose trailing block reference the tests expect to default
\* to "latest", and the position of that parameter.
LatestDefaulted == {"GetBalance", "GetCode", "GetTransactionCount", "GetStorageAt", "Call"}
BlockPosition(name) == IF name = "GetStorageAt" THEN 3 ELSE 2
WithBlock(inv, b) == [inv EXCEPT !.params[BlockPosition(inv.invocation)] = b]
BlockOf(inv) == inv.params[BlockPosition(inv.invocation)]

\* The helper's round trip is over and the method name was left alone.
RoundTripped ==
    /\ serdePc = "deserialized"
    /\ serialized = Serialize(call)

\* C5: for GetBalance, GetCode, GetTransactionCount, GetStorageAt and Call,
\* an invocation whose block reference is None serializes and deserializes
\* to the invocation with the block reference Some(latest), which is also
\* what the serialization of that explicit invocation deserializes to; an
\* invocation with Some(latest) round-trips to itself.
C5_DefaultingEquivalence ==
    (RoundTripped /\ call.invocation \in LatestDefaulted) =>
        /\ BlockOf(call) = None =>
              /\ call_deserialized.ok
              /\ call_deserialized.val = WithBlock(call, Some(latest))
              /\ call_deserialized = Deserialize(Serialize(WithBlock(call, Some(latest))))
        /\ BlockOf(call) = Some(latest) =>
              /\ call_deserialized.ok
              /\ call_deserialized.val = call

\* GetStorageAt(1, 0, None) went through the round trip.
C5_Witness ==
    /\ RoundTripped
    /\ call.invocation = "GetStorageAt"
    /\ BlockOf(call) = None
    /\ Len(serialized.params) = 2
    /\ call_deserialized.ok

\* C6 (as the tests have it): an EstimateGas invocation whose block
\* reference is None deserializes to the invocation with the block
\* reference Some(pending).
C6_EstimateGasDefaultsToPending ==
    (RoundTripped /\ call.invocation = "EstimateGas" /\ BlockOf(call) = None) =>
        /\ call_deserialized.ok
        /\ call_deserialized.val = WithBlock(call, Some(pending))

\* C6 (as stated): an EstimateGas invocation whose block reference is None
\* deserializes to the invocation with the block reference Some(latest).
C6_EstimateGasDefaultsToLatest ==
    (RoundTripped /\ call.invocation = "EstimateGas" /\ BlockOf(call) = None) =>
        /\ call_deserialized.ok
        /\ call_deserialized.val = WithBlock(call, Some(latest))

\* EstimateGas(tx, None) went through the round trip.
C6_Witness ==
    /\ RoundTripped
    /\ call.invocation = "EstimateGas"
    /\ BlockOf(call) = None
    /\ Len(serialized.params) = 1
    /\ call_deserialized.ok

\* C7: a request named "personal_sign" deserializes to the same
\* MethodInvocation::Sign value as the same request named "eth_sign".
C7_AliasEquivalence ==
    (serdePc = "deserialized" /\ serialized.method = "personal_sign") =>
        /\ call_deserialized.ok
        /\ call_deserialized.val.invocation = "Sign"
        /\ call_deserialized = Deserialize([serialized EXCEPT !.method = "eth_sign"])
        /\ call_deserialized.val = call

\* A Sign invocation was deserialized from its "personal_sign" form.
C7_Witness ==
    /\ serdePc = "deserialized"
    /\ serialized.method = "personal_sign"
    /\ serialized.params = Serialize(call).params
    /\ call.invocation = "Sign"
    /\ call_deserialized.ok

\* Every optional trailing parameter of the invocation is supplied, or is
\* one whose omitted value is None.
NothingDefaulted(inv) ==
    \A i \in 1..Len(inv.params) :
        (VariantNamed(inv.invocation).params[i].optional /\ inv.params[i] = None)
            => VariantNamed(inv.invocation).params[i].default = None

\* C8: an invocation whose optional trailing parameters are absent by
\* design or explicitly supplied deserializes from its serialization to
\* itself, its numeric alternatives (U64 or Usize, One or Two) included.
C8_RoundTrip ==
    (RoundTripped /\ NothingDefaulted(call)) =>
        /\ call_deserialized.ok
        /\ call_deserialized.val = call

\* EvmMine(Some(Usize(12345))), written as a JSON number, went through the
\* round trip.
C8_Witness ==
    /\ RoundTripped
    /\ call.invocation = "EvmMine"
    /\ call.params # << None >>
    /\ serialized.params[1].j = "num"
    /\ call_deserialized.ok

(***************************************************************************)
(* Properties of the OneOrMore round trip (specification SpecValue)        *)
(***************************************************************************)

\* C22: a OneOrMore value round-trips with its shape kept.  One(v) is
\* written as the bare value and Many(vs) as an array, deserialization
\* accepts both, and what comes back is the value that went in: One(v) for
\* One(v), Many(vs) for Many(vs) with the same elements in the same order,
\* duplicates kept.
C22_OneOrMoreRoundTrip ==
    /\ serdePc \in {"serialized", "deserialized"} =>
          (serialized.j = "arr") = (call.value.alt = "Many")
    /\ serdePc = "deserialized" =>
          /\ call_deserialized.ok
          /\ call_deserialized.val = call.value
          /\ call_deserialized.val.alt = call.value.alt
          /\ call_deserialized.val.val = call.value.val

\* Many([1, 1]) of the test came back as Many([1, 1]).
C22_Witness ==
    /\ serdePc = "deserialized"
    /\ call.ty = OneOrMore(T("Address"))
    /\ call.value = ManyOf(<< 1, 1 >>)
    /\ serialized.j = "arr" /\ Len(serialized.v) = 2
    /\ call_deserialized = Good(ManyOf(<< 1, 1 >>))

\* One(1) of the test came back as One(1), from a bare value.
OneRoundTripped ==
    /\ serdePc = "deserialized"
    /\ call.value = OneOf(1)
    /\ serialized.j = "hex"
    /\ call_deserialized = Good(OneOf(1))

\* Many of a single element stays Many.
SingletonManyRoundTripped ==
    /\ serdePc = "deserialized"
    /\ call.value = ManyOf(<< 255 >>)
    /\ call_deserialized = Good(ManyOf(<< 255 >>))


\* Provider::handle_request
Init == ProviderInit /\ RlpParked /\ HashParked /\ SerdeParked /\ SignParked
Next == ProviderNext
Spec == Init /\ [][Next]_vars

\* Provider::handle_request under the runtime's scheduling: a future whose
\* awaited task has finished is polled again, and the straight-line code
\* after an await runs on.  Nothing obliges an engine call to return.
Resumes(r) ==
    /\ WF_vars(await_log(r))
    /\ WF_vars(await_engine(r))
    /\ WF_vars(take_solidity_trace(r))
    /\ WF_vars(take_traces(r))
    /\ WF_vars(assemble(r))
\* One engine answer of each kind: scheduling does not read the traces.
AnswerKinds ==
    { EngineOk(<< "tA" >>), EngineFailed("Revert", "tA", << "tB" >>),
      EngineFailed("OutOfGas", "tA", << >>), EngineOther("InvalidInput") }
NextLive ==
    \/ \E r \in Requests, t \in Texts : handle_request(r, t)
    \/ \E r \in Requests, o \in LogOutcomes : log_failed_deserialization(r, o)
    \/ \E r \in Requests : await_log(r)
    \/ \E r \in Requests, res \in AnswerKinds : engine_handle_request(r, res)
    \/ \E r \in Requests : engine_panic(r)
    \/ \E r \in Requests : engine_hang(r)
    \/ \E r \in Requests : await_engine(r)
    \/ \E r \in Requests : take_solidity_trace(r)
    \/ \E r \in Requests : take_traces(r)
    \/ \E r \in Requests : assemble(r)
SpecLive == Init /\ [][NextLive]_vars /\ \A r \in Requests : Resumes(r)

\* The worker pool is fair: a queued task is run.  What the task then does
\* (return, panic, never return) is the task's.
RunsEngineTask(r) ==
    \/ \E res \in AnswerKinds : engine_handle_request(r, res)
    \/ engine_panic(r)
    \/ engine_hang(r)
WorkerPool(r) ==
    /\ WF_vars(\E o \in LogOutcomes : log_failed_deserialization(r, o))
    /\ WF_vars(RunsEngineTask(r))

\* Provider with fair resumption and a fair worker pool
SpecFair ==
    /\ Init /\ [][NextLive]_vars
    /\ \A r \in Requests : Resumes(r) /\ WorkerPool(r)

\* Encoding round trip
InitRlp == RlpInit /\ ProviderParked /\ HashParked /\ SerdeParked /\ SignParked
SpecRlp == InitRlp /\ [][RlpNext]_vars

\* Decoding received bytes
InitDecode == DecodeInit /\ ProviderParked /\ HashParked /\ SerdeParked /\ SignParked
SpecDecode == InitDecode /\ [][DecodeNext]_vars

\* Memoized hash and equality
InitHash == HashInit /\ ProviderParked /\ RlpParked /\ SerdeParked /\ SignParked
SpecHash == InitHash /\ [][HashNext]_vars

\* Field writes on an envelope with a memoized hash
SpecStale == InitHash /\ [][StaleNext]_vars

\* Signing and recovery
InitSign == SignInit /\ ProviderParked /\ RlpParked /\ HashParked /\ SerdeParked
SpecSign == InitSign /\ [][SignNext]_vars

\* OneOrMore serialization round trip
InitValue == ValueInit /\ ProviderParked /\ RlpParked /\ HashParked /\ SignParked
SpecValue == InitValue /\ [][ValueNext]_vars

\* MethodInvocation serialization round trip
InitSerde == SerdeInit /\ ProviderParked /\ RlpParked /\ HashParked /\ SignParked
SpecSerde == InitSerde /\ [][SerdeNext]_vars

=============================================================================
